---- MODULE Spec2Model ----
(***************************************************************************)
(* A model of palkia's World: the generational entity allocator, the       *)
(* per-entity component storage with its per-component read/write locks,   *)
(* the message dispatch engine (dispatch_even_innerer and the handlers it   *)
(* calls, as an explicit call stack), the lazy update queue and finalize.   *)
(***************************************************************************)
EXTENDS Integers, Sequences, FiniteSets, TLC

\* ---------------------------------------------------------------- bounds
MaxAllocs == 2      \* slots handed out by spawn_unfinished in one run
MaxFrames == 3      \* dispatch_even_innerer invocations per top-level dispatch
MaxOps == 2         \* access operations the handlers of one dispatch perform
MaxGuards == 2      \* query/resource guards held by user code at one time
MaxLazy == 3        \* lazy updates waiting for finalize
MaxPending == 1     \* lazy builders reserved and not yet built
MaxRounds == 2      \* dispatch_to_all calls of the rabbit population
MaxRegistrators == 3 \* registrators linked into the program
MaxInserts == 3     \* with/insert calls on one EntityBuilder
MaxShaves == 3      \* the count that a MsgShaveYak starts with

\* ------------------------------------------------------ program constants
DEFAULT_CAPACITY == 4

\* ------------------------------------------- the user's types (the inputs)
CompTypes == {"A", "B", "C"}
MsgTypes == {"M1", "M2"}
ResTypes == {"R", "S"}

\* Component::register of each component type: the kind of handler the type
\* declares for each message type.
MsgTable(c, m) ==
  CASE c = "A" /\ m = "M1" -> "Write"
    [] c = "B" /\ m = "M1" -> "Read"
    [] c = "B" /\ m = "M2" -> "Write"
    [] c = "C" /\ m = "M1" -> "Write"
    [] c = "Rabbit" /\ m \in {"Mitosis", "ReproduceAndDie"} -> "Read"
    [] c \in {"YakShaver", "YakShaverNoDefer"} /\ m = "MsgShaveYak" -> "Write"
    [] OTHER -> "None"

NoIdx == -1
NoEntity == [index |-> NoIdx, generation |-> 0]
Entity(i, g) == [index |-> i, generation |-> g]

\* Option: None is <<>> and Some(v) is <<v>>
None == <<>>
Some(v) == <<v>>

VARIABLES
  allocator,        \* EntityStorage.allocator: the generational arena
  assocs,           \* EntityStorage.assocs: Entity -> EntityAssoc
  components,       \* World.components: the registered component types
  resources,        \* World.resources: the ResourceMap with its locks
  lazy,             \* World.lazy_channel: the queued LazyUpdates
  pending,          \* EntityBuilders in lazy mode that are not built yet
  stack,            \* the call stack of dispatch_even_innerer invocations
  access,           \* the ListenerWorldAccess of the running dispatch
  guards,           \* query and resource guards held by user code
  panic,            \* the hard failure the program stopped with, if any
  last,             \* what the previous top-level call returned
  issued,           \* every handle spawn_unfinished has returned
  declared,         \* the with/insert calls made on each entity's builder
  debug_assertions, \* whether the build has cfg(debug_assertions)
  sweep,            \* the loop of a running World::dispatch_to_all
  vtables,          \* World.components: the vtable of each registered type
  registerer,       \* the ComponentRegisterer that a register call is filling
  COMPONENT_REGISTRATORS, \* the registrators linked into the program
  COMPONENT_VTABLES, \* the static registry: a OnceLock<ComponentVtables>
  builder,          \* the EntityBuilder that the caller is filling
  lazy_entities     \* world.rs: World.lazy_entities_created and _deleted

\* what registration builds
registration ==
  <<vtables, registerer, COMPONENT_REGISTRATORS, COMPONENT_VTABLES>>

vars == <<allocator, assocs, components, resources, lazy, pending, stack,
          access, guards, panic, last, issued, declared,
          debug_assertions, builder, registration, sweep, lazy_entities>>

\* ------------------------------------------------------------- sequences
Range(s) == {s[i] : i \in 1..Len(s)}

RemoveAt(s, i) == SubSeq(s, 1, i - 1) \o SubSeq(s, i + 1, Len(s))

\* ------------------------------------------------------------- allocator
FreeEntry(next) == [occ |-> FALSE, generation |-> 0, next_free |-> next]
OccEntry(g) == [occ |-> TRUE, generation |-> g, next_free |-> NoIdx]

\* EntityAllocator::reserve
reserve(a, additional_capacity) ==
  LET start == Len(a.items)
      end == start + additional_capacity
      old_head == a.free_list_head
      fresh == [k \in 1..additional_capacity |->
                  LET i == start + k - 1
                  IN IF i = end - 1 THEN FreeEntry(old_head)
                     ELSE FreeEntry(i + 1)]
  IN [a EXCEPT !.items = a.items \o fresh, !.free_list_head = start]

\* EntityAllocator::with_capacity
with_capacity(capacity) ==
  reserve([items |-> <<>>, generation |-> 0, free_list_head |-> NoIdx,
           len |-> 0],
          IF capacity < 1 THEN 1 ELSE capacity)

\* EntityAllocator::try_alloc_next_index and try_insert: the result is the
\* allocator and the entity, NoEntity when the free list is empty
try_insert(a) ==
  IF a.free_list_head = NoIdx
  THEN [alloc |-> a, entity |-> NoEntity]
  ELSE LET i == a.free_list_head
       IN [alloc |-> [a EXCEPT
                        !.free_list_head = a.items[i + 1].next_free,
                        !.len = a.len + 1,
                        !.items[i + 1] = OccEntry(a.generation)],
           entity |-> Entity(i, a.generation)]

\* an insert that does not grow the allocator when the free list is empty
insert_without_reserve(a) == try_insert(a)

\* EntityAllocator::insert
insert(a) ==
  LET first == try_insert(a)
  IN IF first.entity # NoEntity THEN first
     ELSE try_insert(reserve(a, a.len))

\* a lookup that takes any handle of an occupied slot, whatever its generation
contains_any_generation(a, e) ==
  /\ e.index >= 0
  /\ e.index < Len(a.items)
  /\ a.items[e.index + 1].occ

\* EntityAllocator::get(e).is_some()
contains(a, e) ==
  /\ e.index >= 0
  /\ e.index < Len(a.items)
  /\ a.items[e.index + 1].occ
  /\ a.items[e.index + 1].generation = e.generation

\* a remove that frees the slot and keeps the allocator's generation
remove_same_generation(a, e) ==
  IF contains(a, e)
  THEN [a EXCEPT !.items[e.index + 1] = FreeEntry(a.free_list_head),
                 !.free_list_head = e.index,
                 !.len = a.len - 1]
  ELSE a

\* EntityAllocator::remove: the allocator after the call (unchanged when the
\* call returns None)
remove(a, e) ==
  IF contains(a, e)
  THEN [a EXCEPT !.items[e.index + 1] = FreeEntry(a.free_list_head),
                 !.free_list_head = e.index,
                 !.generation = a.generation + 1,
                 !.len = a.len - 1]
  ELSE a

\* ---------------------------------------------------------------- storage
\* EntityStorage::liveness
liveness(al, as, e) ==
  CASE e \in DOMAIN as /\ contains(al, e) -> "Alive"
    [] e \notin DOMAIN as /\ contains(al, e) -> "PartiallySpawned"
    [] e \notin DOMAIN as /\ ~contains(al, e) -> "Dead"
    [] OTHER -> "Panic"

Liveness(e) == liveness(allocator, assocs, e)

\* a tracker that keeps both components of a type inserted twice
insert_raw_append(comps, c) == Append(comps, c)

\* EntityBuilderComponentTracker::insert_raw: a component whose type is
\* already in the tracker replaces the old one in place
insert_raw(comps, c) ==
  IF c \in Range(comps) THEN comps ELSE Append(comps, c)

\* the tracker after the builder's with/insert calls, in call order
RECURSIVE InsertAll(_, _)
InsertAll(comps, withs) ==
  IF withs = <<>> THEN comps
  ELSE InsertAll(insert_raw(comps, Head(withs)), Tail(withs))

\* the value of a component that a test spawns: YakShaver::new(true) and
\* YakShaver::new(false) of the message tests, and a unit value for the
\* component types whose fields play no part
ComponentNew(tid) ==
  CASE tid = "YakShaver" -> [yaks_shaved |-> 0, defer |-> TRUE]
    [] tid = "YakShaverNoDefer" -> [yaks_shaved |-> 0, defer |-> FALSE]
    [] OTHER -> 0

\* the collection in the reverse of the tracker's order
EntityAssocNewReversed(comps) ==
  [i \in 1..Len(comps) |->
     [tid |-> comps[Len(comps) + 1 - i], r |-> 0, w |-> FALSE,
      p |-> FALSE, val |-> ComponentNew(comps[Len(comps) + 1 - i])]]

\* EntityAssoc::new: each component in its own unlocked RwLock, in the
\* order of the tracker
EntityAssocNew(comps) ==
  [i \in 1..Len(comps) |-> [tid |-> comps[i], r |-> 0, w |-> FALSE,
                            p |-> FALSE, val |-> ComponentNew(comps[i])]]

Tids(assoc) == [i \in 1..Len(assoc) |-> assoc[i].tid]

\* RwLock::try_read and RwLock::try_write on a component entry or resource:
\* WouldBlock while an incompatible guard is out, else Poisoned if a writer
\* panicked holding the lock (p), else the guard
try_read(entry) ==
  IF entry.w THEN "WouldBlock"
  ELSE IF entry.p THEN "Poisoned"
  ELSE "Ok"

try_write(entry) ==
  IF entry.w \/ entry.r > 0 THEN "WouldBlock"
  ELSE IF entry.p THEN "Poisoned"
  ELSE "Ok"

\* a read lock that is granted next to a writer
try_read_ok_beside_writer(entry) == ~entry.p
try_read_ok(entry) == ~entry.w /\ ~entry.p
\* a write lock that is refused only by another writer
try_write_ok_ignoring_readers(entry) == ~entry.w
try_write_ok(entry) == ~entry.w /\ entry.r = 0 /\ ~entry.p

\* ResourceMap::new: no type has an instance; failed remembers the modes of
\* the guards on the instance whose holders panicked holding them
NoResource ==
  [present |-> FALSE, r |-> 0, w |-> FALSE, p |-> FALSE, val |-> 0,
   failed |-> {}]
ResourceMapNew == [t \in ResTypes |-> NoResource]

NoPanic == [kind |-> "none", entity |-> NoEntity, comp |-> ""]
Panicked(kind, e, c) == [kind |-> kind, entity |-> e, comp |-> c]
NoLast == [op |-> "none"]
\* both counters of the counter-based world at zero
NoLazyEntities == [created |-> 0, deleted |-> 0]
NoAccess == [cancelled |-> FALSE, queued |-> <<>>, sent |-> <<>>,
             delivered |-> <<>>, nframes |-> 0,
             nops |-> 0, cancel_calls |-> 0]
\* no dispatch_to_all is running; calls counts the calls that have returned,
\* alive is what was Alive when the last call began and sent counts the
\* dispatches that the call has made to each entity
NoSweep ==
  [active |-> FALSE, mtype |-> "", todo |-> {}, calls |-> 0, alive |-> {},
   sent |-> [e \in {} |-> 0]]

\* EntityBuilderComponentTracker::new: the components in insertion order and
\* the index of each type's component, counted from 0
EntityBuilderComponentTrackerNew ==
  [components |-> <<>>, component_idxs |-> [t \in {} |-> 0]]

\* no builder is being filled; an EntityBuilder has its tracker, and here
\* also the with/insert calls made on it, what the last of them returned,
\* and the EntityAssoc that build has made of it
NoBuilder ==
  [open |-> FALSE, tracker |-> EntityBuilderComponentTrackerNew,
   inserts |-> <<>>, returned |-> None, built |-> None]

\* ---------------------------------------------------------- registration
\* Component::register of each component type: the callbacks it registers
CallbackTable(c) ==
  CASE c = "Rabbit" -> "Both"
    [] c = "Widget" -> "Both"
    [] OTHER -> "None"

\* vtablesathome::default_friendly_type_name: the last segment of the path
default_friendly_type_name(tid) ==
  CASE tid = "x::A" -> "A"
    [] OTHER -> tid

\* ComponentRegistererErased::new, wrapped for the component type c; calls
\* remembers the handle_read and handle_write calls that have returned
ComponentRegistererNew(c) ==
  [tid |-> c, friendly_name |-> None, handlers |-> [m \in {} |-> ""],
   create_cb |-> FALSE, remove_cb |-> FALSE, calls |-> <<>>]

\* no register call is running
NoRegisterer == ComponentRegistererNew("")

\* ComponentRegisterer::into_vtable
into_vtable(r) ==
  [tid |-> r.tid,
   friendly_name |-> IF r.friendly_name = None
                     THEN default_friendly_type_name(r.tid)
                     ELSE r.friendly_name[1],
   msg_table |-> r.handlers,
   callbacks |-> CASE r.create_cb /\ r.remove_cb -> "Both"
                   [] r.create_cb /\ ~r.remove_cb -> "Create"
                   [] ~r.create_cb /\ r.remove_cb -> "Remove"
                   [] OTHER -> "None"]

\* the registerer that Component::register of c returns: the handlers of
\* MsgTable and the callbacks of CallbackTable
Register(c) ==
  [ComponentRegistererNew(c) EXCEPT
     !.handlers = [m \in {x \in MsgTypes \cup {"Mitosis", "ReproduceAndDie"} :
                            MsgTable(c, x) # "None"} |-> MsgTable(c, m)],
     !.create_cb = CallbackTable(c) \in {"Create", "Both"},
     !.remove_cb = CallbackTable(c) \in {"Remove", "Both"}]

\* World.components of a world where the types in cs are registered
Registered(cs) == [c \in cs |-> into_vtable(Register(c))]

\* World::new
Init ==
  /\ allocator = with_capacity(DEFAULT_CAPACITY)
  /\ assocs = <<>>
  /\ components = {}
  /\ resources = ResourceMapNew
  /\ lazy = <<>>
  /\ pending = {}
  /\ stack = <<>>
  /\ access = NoAccess
  /\ guards = <<>>
  /\ panic = NoPanic
  /\ last = NoLast
  /\ issued = {}
  /\ declared = <<>>
  /\ debug_assertions \in BOOLEAN
  /\ sweep = NoSweep
  /\ vtables = Registered({})
  /\ registerer = NoRegisterer
  /\ COMPONENT_REGISTRATORS = <<>>
  /\ COMPONENT_VTABLES = None
  /\ builder = NoBuilder
  /\ lazy_entities = NoLazyEntities

\* ------------------------------------------------------- who may act now
Top == stack[Len(stack)]

\* no dispatch is running: the caller holds the World
Idle == panic = NoPanic /\ stack = <<>> /\ ~sweep.active

\* the caller can take &mut World: nothing borrows from it
Exclusive == Idle /\ guards = <<>> /\ pending = {}

\* user code is running: the caller between two calls, or a handler
UserCode ==
  /\ panic = NoPanic
  /\ IF stack = <<>> THEN ~sweep.active
     ELSE Top.phase = "handler" /\ access.nops < MaxOps

\* a handler is running and may call its ListenerWorldAccess
InHandler ==
  /\ panic = NoPanic
  /\ stack # <<>>
  /\ Top.phase = "handler"
  /\ access.nops < MaxOps

\* who holds what user code acquires now: 0 for the caller, else the frame
Holder == IF stack = <<>> THEN 0 ELSE Top.id

\* one more access operation of the running handler
CountOp == IF stack = <<>> THEN access
           ELSE [access EXCEPT !.nops = @ + 1]

\* ------------------------------------------------------------ the World
\* the map with the value v under the key k (BTreeMap::insert)
MapInsert(map, k, v) ==
  [x \in DOMAIN map \cup {k} |-> IF x = k THEN v ELSE map[x]]

\* World::register_component of a type whose Component::register is the one
\* of MsgTable and CallbackTable
RegisterComponent(c) ==
  /\ Exclusive
  /\ IF c \in components
     THEN /\ panic' = Panicked("already_registered", NoEntity, c)
          /\ UNCHANGED <<components, vtables>>
     ELSE /\ components' = components \cup {c}
          /\ vtables' = MapInsert(vtables, c, into_vtable(Register(c)))
          /\ UNCHANGED panic
  /\ last' = NoLast
  /\ UNCHANGED <<allocator, assocs, resources, lazy, pending, stack, access,
                 guards, issued, declared, lazy_entities, debug_assertions, builder, registerer,
                 COMPONENT_REGISTRATORS, COMPONENT_VTABLES, sweep>>

\* EntityStorage::finish_spawn: the assocs after the call, or the failure
finish_spawn(as, target, assoc) ==
  IF target \in DOMAIN as
  THEN [assocs |-> as, panic |-> Panicked("already_alive", target, "")]
  ELSE [assocs |-> [x \in DOMAIN as \cup {target} |->
                      IF x = target THEN assoc ELSE as[x]],
        panic |-> NoPanic]

\* World::finish_spawn: the debug-only check of the component types, then
\* the storage's finish_spawn
WorldFinishSpawn(as, target, comps) ==
  IF debug_assertions /\ \E i \in 1..Len(comps) : comps[i] \notin components
  THEN [assocs |-> as,
        panic |-> Panicked("unregistered_spawn", target,
                    comps[CHOOSE i \in 1..Len(comps) :
                            /\ comps[i] \notin components
                            /\ \A j \in 1..(i - 1) : comps[j] \in components])]
  ELSE finish_spawn(as, target, EntityAssocNew(comps))

Without(f, x) == [y \in DOMAIN f \ {x} |-> f[y]]
With(f, x, v) == [y \in DOMAIN f \cup {x} |-> IF y = x THEN v ELSE f[y]]

\* ------------------------------------------------------------- callbacks
\* the parts of the World that a spawn, a despawn and the callbacks they run
\* work on; calls lists the callbacks invoked so far in the running operation
TheWorld(al, as) ==
  [allocator |-> al, assocs |-> as, panic |-> NoPanic,
   resources |-> resources, calls |-> <<>>]

\* the resource that the callbacks of a component type write: Rabbit's
\* PopulationTracker and Widget's ResWidgetTracker
CallbackResource(c) ==
  CASE c = "Rabbit" -> "PopulationTracker"
    [] c = "Widget" -> "ResWidgetTracker"
    [] OTHER -> ""

\* one invocation of a callback and the liveness that the entity has for
\* the callback's access while it runs
Call(kind, c, e, w) ==
  [kind |-> kind, tid |-> c, entity |-> e,
   liveness |-> liveness(w.allocator, w.assocs, e)]

\* the body of a create or remove callback: write_resource().unwrap(), then
\* Rabbit's counter goes up or down by one, and Widget's tracker runs
\* TrackEntitiesWithComponent::on_create or on_remove
callback(kind, c, e, w) ==
  LET t == CallbackResource(c)
      called == [w EXCEPT !.calls = Append(@, Call(kind, c, e, w))]
  IN IF t \notin DOMAIN w.resources
     THEN [called EXCEPT !.panic = Panicked("callback_unwrap", e, c)]
     ELSE IF ~w.resources[t].present \/ try_write(w.resources[t]) # "Ok"
     THEN [called EXCEPT !.panic = Panicked("callback_unwrap", e, c)]
     ELSE IF c = "Widget"
     THEN IF (kind = "create") = (e \in w.resources[t].val)
          THEN [called EXCEPT !.panic = Panicked("tracker", e, c),
                              !.resources[t].p = TRUE]
          ELSE [called EXCEPT !.resources[t].val =
                                 IF kind = "create" THEN @ \cup {e}
                                 ELSE @ \ {e}]
     ELSE [called EXCEPT !.resources[t].val =
                            IF kind = "create" THEN @ + 1 ELSE @ - 1]

\* the loop of World::run_creation_callbacks from the i-th component on
RECURSIVE creation_from(_, _, _)
creation_from(w, e, i) ==
  IF w.panic # NoPanic \/ i > Len(w.assocs[e]) THEN w
  ELSE LET comp == w.assocs[e][i]
       IN IF comp.tid \notin DOMAIN vtables
          THEN creation_from(w, e, i + 1)
          ELSE IF vtables[comp.tid].callbacks \notin {"Create", "Both"}
          THEN creation_from(w, e, i + 1)
          ELSE IF try_read(comp) # "Ok"
          THEN [w EXCEPT !.panic = Panicked("callback_locked", e, comp.tid)]
          ELSE creation_from(callback("create", comp.tid, e, w), e, i + 1)

\* a spawn that runs no callback
run_creation_callbacks_never(w, e) == w
\* World::run_creation_callbacks
run_creation_callbacks(w, e) == creation_from(w, e, 1)

\* the loop of World::run_removal_callback from the i-th component on; the
\* collection has already left the storage
RECURSIVE removal_from(_, _, _, _)
removal_from(w, e, comps, i) ==
  IF w.panic # NoPanic \/ i > Len(comps) THEN w
  ELSE LET comp == comps[i]
       IN IF comp.tid \notin DOMAIN vtables
          THEN removal_from(w, e, comps, i + 1)
          ELSE IF vtables[comp.tid].callbacks \notin {"Remove", "Both"}
          THEN removal_from(w, e, comps, i + 1)
          ELSE IF comp.p
          THEN [w EXCEPT !.panic = Panicked("callback_poisoned", e, comp.tid)]
          ELSE removal_from(callback("remove", comp.tid, e, w), e, comps,
                            i + 1)

\* a removal that runs no callback
run_removal_callback_never(w, e, comps) == w
\* World::run_removal_callback
run_removal_callback(w, e, comps) == removal_from(w, e, comps, 1)

\* World::spawn, the builder's with/insert calls, EntityBuilder::build in
\* immediate mode: World::finish_spawn and the creation callbacks
Spawn(withs) ==
  /\ Exclusive
  /\ Cardinality(issued) < MaxAllocs
  /\ LET got == insert(allocator)
         spawned == WorldFinishSpawn(assocs, got.entity,
                                     InsertAll(<<>>, withs))
         done == IF spawned.panic # NoPanic
                 THEN [TheWorld(got.alloc, spawned.assocs)
                         EXCEPT !.panic = spawned.panic]
                 ELSE run_creation_callbacks(
                        TheWorld(got.alloc, spawned.assocs), got.entity)
     IN /\ allocator' = got.alloc
        /\ issued' = issued \cup {got.entity}
        /\ assocs' = done.assocs
        /\ resources' = done.resources
        /\ panic' = done.panic
        /\ declared' = IF done.panic = NoPanic
                        THEN With(declared, got.entity, withs) ELSE declared
        /\ last' = IF done.panic = NoPanic
                    THEN [op |-> "spawn", entity |-> got.entity,
                          calls |-> done.calls]
                    ELSE NoLast
  /\ UNCHANGED <<components, lazy, pending, stack, access, guards,
                 lazy_entities, debug_assertions, builder, registration, sweep>>

\* EntityStorage::despawn: the allocator slot is freed first, then the
\* component collection is taken out
despawn(al, as, target) ==
  IF ~contains(al, target)
  THEN [allocator |-> al, assocs |-> as,
        panic |-> Panicked("not_in_allocator", target, "")]
  ELSE IF target \notin DOMAIN as
  THEN [allocator |-> remove(al, target), assocs |-> as,
        panic |-> Panicked("not_finished", target, "")]
  ELSE [allocator |-> remove(al, target), assocs |-> Without(as, target),
        panic |-> NoPanic]

\* World::despawn
Despawn(e) ==
  /\ Exclusive
  /\ LET done == despawn(allocator, assocs, e)
     IN /\ allocator' = done.allocator
        /\ assocs' = done.assocs
        /\ panic' = done.panic
        /\ declared' = IF done.panic = NoPanic /\ e \in DOMAIN declared
                        THEN Without(declared, e) ELSE declared
  /\ last' = NoLast
  /\ UNCHANGED <<components, resources, lazy, pending, stack, access, guards,
                 issued, lazy_entities, debug_assertions, builder, registration, sweep>>

FinishEntity(comps, e) == [kind |-> "FinishEntity", comps |-> comps, entity |-> e]
DespawnEntity(e) == [kind |-> "DespawnEntity", comps |-> <<>>, entity |-> e]

\* EntityStorage::spawn_unfinished and the lazy builder made for the entity
Reserve ==
  /\ Cardinality(issued) < MaxAllocs
  /\ Cardinality(pending) < MaxPending
  /\ LET got == insert(allocator)
     IN /\ allocator' = got.alloc
        /\ issued' = issued \cup {got.entity}
        /\ pending' = pending \cup {[entity |-> got.entity, holder |-> Holder]}
  /\ last' = NoLast
  /\ UNCHANGED <<assocs, components, resources, lazy, stack, guards, panic,
                 declared, lazy_entities, debug_assertions, builder, registration, sweep>>

\* World::lazy_spawn
WorldLazySpawn ==
  /\ Idle
  /\ Reserve
  /\ UNCHANGED access

\* ListenerWorldAccess::lazy_spawn
ListenerLazySpawn ==
  /\ InHandler
  /\ Reserve
  /\ access' = CountOp

\* sending a LazyUpdate on the world's channel
Send(update) ==
  /\ Len(lazy) < MaxLazy
  /\ lazy' = Append(lazy, update)

\* the builder's with/insert calls and EntityBuilder::build
Build(b, withs) ==
  /\ b \in pending
  /\ b.holder = Holder
  /\ Send(FinishEntity(InsertAll(<<>>, withs), b.entity))
  /\ pending' = pending \ {b}
  /\ declared' = With(declared, b.entity, withs)
  /\ last' = NoLast
  /\ UNCHANGED <<allocator, assocs, components, resources, stack, guards,
                 panic, issued, lazy_entities, debug_assertions, builder, registration, sweep>>

\* EntityBuilder::build of a World::lazy_spawn builder (LazyWorld)
WorldLazyBuild(b, withs) ==
  /\ Idle
  /\ Build(b, withs)
  /\ UNCHANGED access

\* EntityBuilder::build of a ListenerWorldAccess::lazy_spawn builder (Lazy)
ListenerLazyBuild(b, withs) ==
  /\ InHandler
  /\ Build(b, withs)
  /\ access' = CountOp

\* a lazy builder that the caller drops without calling build
DropBuilder(b) ==
  /\ Idle
  /\ b \in pending
  /\ pending' = pending \ {b}
  /\ last' = NoLast
  /\ UNCHANGED <<allocator, assocs, components, resources, lazy, stack,
                 access, guards, panic, issued, declared,
                 lazy_entities, debug_assertions, builder, registration, sweep>>

\* World::lazy_despawn
WorldLazyDespawn(e) ==
  /\ Idle
  /\ Send(DespawnEntity(e))
  /\ last' = NoLast
  /\ UNCHANGED <<allocator, assocs, components, resources, pending, stack,
                 access, guards, panic, issued, declared,
                 lazy_entities, debug_assertions, builder, registration, sweep>>

\* a lazy_despawn that also takes the entity out of the storage at once
ListenerLazyDespawnEager(e) ==
  /\ InHandler
  /\ Send(DespawnEntity(e))
  /\ assocs' = IF e \in DOMAIN assocs THEN Without(assocs, e) ELSE assocs
  /\ access' = CountOp
  /\ last' = NoLast
  /\ UNCHANGED <<allocator, components, resources, pending, stack,
                 guards, panic, issued, declared,
                 lazy_entities, debug_assertions, builder, registration, sweep>>

\* ListenerWorldAccess::lazy_despawn (queue_update)
ListenerLazyDespawn(e) ==
  /\ InHandler
  /\ Send(DespawnEntity(e))
  /\ access' = CountOp
  /\ last' = NoLast
  /\ UNCHANGED <<allocator, assocs, components, resources, pending, stack,
                 guards, panic, issued, declared,
                 lazy_entities, debug_assertions, builder, registration, sweep>>

\* the FinishEntity arm of LazyUpdate::apply: the storage's finish_spawn,
\* then the creation callbacks
apply_finish(w, u) ==
  LET done == finish_spawn(w.assocs, u.entity, EntityAssocNew(u.comps))
  IN IF done.panic # NoPanic THEN [w EXCEPT !.panic = done.panic]
     ELSE run_creation_callbacks([w EXCEPT !.assocs = done.assocs], u.entity)

\* the DespawnEntity arm of LazyUpdate::apply for an entity that it
\* despawns: the storage's despawn, then the removal callbacks
apply_despawn(w, u) ==
  LET done == despawn(w.allocator, w.assocs, u.entity)
      gone == [w EXCEPT !.allocator = done.allocator,
                        !.assocs = done.assocs, !.panic = done.panic]
  IN IF done.panic # NoPanic THEN gone
     ELSE run_removal_callback(gone, u.entity, w.assocs[u.entity])

\* an apply that completes spawns and drops the despawns
apply_spawns_only(w, u) ==
  IF u.kind = "FinishEntity" THEN apply_finish(w, u) ELSE w

\* an apply that despawns without looking at the entity's liveness
apply_despawn_unchecked(w, u) ==
  IF u.kind = "FinishEntity" THEN apply_finish(w, u)
  ELSE apply_despawn(w, u)

\* LazyUpdate::apply
apply(w, u) ==
  IF u.kind = "FinishEntity" THEN apply_finish(w, u)
  ELSE LET state == liveness(w.allocator, w.assocs, u.entity)
       IN IF state = "Alive" THEN apply_despawn(w, u)
          ELSE IF state = "Panic"
          THEN [w EXCEPT !.panic =
                           Panicked("assocs_not_allocator", u.entity, "")]
          ELSE w

RECURSIVE ApplyAll(_, _)
\* a finalize that applies the first update only
ApplyAllFirstOnly(w, updates) ==
  IF updates = <<>> THEN w ELSE apply(w, Head(updates))

\* a finalize that applies the collected updates last one first
RECURSIVE ApplyAllReversed(_, _)
ApplyAllReversed(w, updates) ==
  IF updates = <<>> THEN w
  ELSE LET rest == ApplyAllReversed(w, Tail(updates))
       IN IF rest.panic # NoPanic THEN rest ELSE apply(rest, Head(updates))

\* the loop of World::finalize over the collected updates; a failure ends it
ApplyAll(w, updates) ==
  IF updates = <<>> \/ w.panic # NoPanic THEN w
  ELSE ApplyAll(apply(w, Head(updates)), Tail(updates))

\* a finalize that receives and applies one update and leaves the others
\* on the channel
FinalizeOneUpdate ==
  /\ Exclusive
  /\ LET batch == IF lazy = <<>> THEN <<>> ELSE <<Head(lazy)>>
         done == ApplyAll(TheWorld(allocator, assocs), batch)
     IN /\ allocator' = done.allocator
        /\ assocs' = done.assocs
        /\ resources' = done.resources
        /\ panic' = done.panic
        /\ declared' = [e \in {x \in DOMAIN declared :
                                  liveness(done.allocator, done.assocs, x) # "Dead"}
                          |-> declared[e]]
        /\ last' = IF done.panic = NoPanic
                    THEN [op |-> "finalize", applied |-> batch,
                          before |-> [e \in issued |-> Liveness(e)],
                          calls |-> done.calls]
                    ELSE NoLast
        /\ lazy' = IF lazy = <<>> THEN <<>> ELSE Tail(lazy)
  /\ UNCHANGED <<components, pending, stack, access, guards,
                 issued, lazy_entities, debug_assertions, builder, registration, sweep>>

\* World::finalize
Finalize ==
  /\ Exclusive
  /\ LET done == ApplyAll(TheWorld(allocator, assocs), lazy)
     IN /\ allocator' = done.allocator
        /\ assocs' = done.assocs
        /\ resources' = done.resources
        /\ panic' = done.panic
        /\ declared' = [e \in {x \in DOMAIN declared :
                                  liveness(done.allocator, done.assocs, x) # "Dead"}
                          |-> declared[e]]
        /\ last' = IF done.panic = NoPanic
                    THEN [op |-> "finalize", applied |-> lazy,
                          before |-> [e \in issued |-> Liveness(e)],
                          calls |-> done.calls]
                    ELSE NoLast
  /\ lazy' = <<>>
  /\ UNCHANGED <<components, pending, stack, access, guards,
                 issued, lazy_entities, debug_assertions, builder, registration, sweep>>

\* ------------------------------------------------------- message dispatch
Msg(type, val) == [type |-> type, val |-> val]

\* the handler's result is lost: the message goes on unchanged
HandleLost(c, msg) == msg

\* what a handler of component type c returns for the message it is given:
\* the handlers are the user's functions, so the value of a message is the
\* list of the handlers that have been applied to it, innermost first
Handle(c, msg) == [msg EXCEPT !.val = Append(@, c)]

Frame(id, target, msg, via, by) ==
  [id |-> id, target |-> target, msg |-> msg, idx |-> 1, phase |-> "walk",
   ran |-> <<>>, cancelled_at |-> 0, own_cancel |-> FALSE, via |-> via,
   queued_by |-> by]

\* the first lines of dispatch_even_innerer: EntityStorage::get fails for a
\* target that has no component collection
Enter(stk, acc, target, msg, via, by) ==
  IF target \notin DOMAIN assocs
  THEN [stack |-> stk, access |-> acc,
        panic |-> Panicked("unfinished", target, "")]
  ELSE [stack |-> Append(stk, Frame(acc.nframes + 1, target, msg, via, by)),
        access |-> [acc EXCEPT !.nframes = @ + 1],
        panic |-> NoPanic]

\* ListenerWorldAccess::new
ListenerWorldAccessNew ==
  [cancelled |-> FALSE, queued |-> <<>>, sent |-> <<>>, delivered |-> <<>>,
   nframes |-> 0, nops |-> 0, cancel_calls |-> 0]

\* AccessDispatcher for World: dispatch, up to the start of the walk
Dispatch(target, mtype) ==
  /\ Idle
  /\ LET in == Enter(stack, ListenerWorldAccessNew, target, Msg(mtype, <<>>),
                     "top", 0)
     IN /\ stack' = in.stack
        /\ access' = IF in.panic = NoPanic THEN in.access ELSE access
        /\ panic' = in.panic
  /\ last' = NoLast
  /\ UNCHANGED <<allocator, assocs, components, resources, lazy, pending,
                 guards, issued, declared,
                 lazy_entities, debug_assertions, builder, registration, sweep>>

\* the component at or after position i that the walk stops at: the first
\* one whose vtable lookup fails or that has a handler for the message type
RECURSIVE NextStop(_, _, _)
NextStop(comps, i, mtype) ==
  IF i > Len(comps) THEN i
  ELSE IF comps[i].tid \notin components THEN i
  ELSE IF MsgTable(comps[i].tid, mtype) # "None" THEN i
  ELSE NextStop(comps, i + 1, mtype)

\* the handler gets the component whatever the state of its lock
LockUnchecked(entry, kind) ==
  IF kind = "Read" THEN [ok |-> TRUE, entry |-> [entry EXCEPT !.r = @ + 1]]
  ELSE [ok |-> TRUE, entry |-> [entry EXCEPT !.w = TRUE]]

\* the locking of dispatch_even_innerer for one component: try_read, and for
\* a Write handler drop it and try_write
Lock(entry, kind) ==
  IF ~try_read_ok(entry) THEN [ok |-> FALSE, entry |-> entry]
  ELSE IF kind = "Read" THEN [ok |-> TRUE, entry |-> [entry EXCEPT !.r = @ + 1]]
  ELSE IF ~try_write_ok(entry) THEN [ok |-> FALSE, entry |-> entry]
  ELSE [ok |-> TRUE, entry |-> [entry EXCEPT !.w = TRUE]]

\* a handler lock that is never given back
UnlockKept(entry, kind) == entry

Unlock(entry, kind) ==
  IF kind = "Read" THEN [entry EXCEPT !.r = @ - 1]
  ELSE [entry EXCEPT !.w = FALSE]

\* dispatch_even_innerer, the for loop over the components up to the call of
\* the next handler
Walk ==
  /\ panic = NoPanic
  /\ stack # <<>>
  /\ Top.phase = "walk"
  /\ LET f == Top
         comps == assocs[f.target]
         i == NextStop(comps, f.idx, f.msg.type)
         n == Len(stack)
     IN IF i > Len(comps)
        THEN /\ stack' = [stack EXCEPT ![n].phase = "drain", ![n].idx = i]
             /\ UNCHANGED <<assocs, panic>>
        ELSE IF comps[i].tid \notin components
        THEN /\ panic' = Panicked("unregistered_access", f.target, comps[i].tid)
             /\ UNCHANGED <<assocs, stack>>
        ELSE LET locked == Lock(comps[i], MsgTable(comps[i].tid, f.msg.type))
             IN IF locked.ok
                THEN /\ assocs' = [assocs EXCEPT ![f.target][i] = locked.entry]
                     /\ stack' = [stack EXCEPT ![n].phase = "handler",
                                               ![n].idx = i,
                                               ![n].ran = Append(@, i)]
                     /\ UNCHANGED panic
                ELSE /\ panic' = Panicked("loop", f.target, comps[i].tid)
                     /\ UNCHANGED <<assocs, stack>>
  /\ last' = NoLast
  /\ UNCHANGED <<allocator, components, resources, lazy, pending, access,
                 guards, issued, declared,
                 lazy_entities, debug_assertions, builder, registration, sweep>>

\* ListenerWorldAccess::queue_dispatch
\* the pair that queue_dispatch sends down the channel, with the frame that
\* sent it
Queued(target, mtype) ==
  [msg |-> Msg(mtype, <<>>), target |-> target, by |-> Top.id]

QueueDispatch(target, mtype) ==
  /\ InHandler
  /\ access.nframes + Len(access.queued) < MaxFrames
  /\ access' = [CountOp EXCEPT
                  !.queued = Append(@, Queued(target, mtype)),
                  !.sent = Append(@, Queued(target, mtype))]
  /\ UNCHANGED stack
  /\ last' = NoLast
  /\ UNCHANGED <<allocator, assocs, components, resources, lazy, pending,
                 guards, panic, issued, declared,
                 lazy_entities, debug_assertions, builder, registration, sweep>>

\* AccessDispatcher for ListenerWorldAccess: dispatch from inside a handler,
\* on the handler's own access
NestedDispatch(target, mtype) ==
  /\ InHandler
  /\ access.nframes + Len(access.queued) < MaxFrames
  /\ LET in == Enter(stack, CountOp, target, Msg(mtype, <<>>), "nested", 0)
     IN /\ stack' = in.stack
        /\ access' = in.access
        /\ panic' = in.panic
  /\ last' = NoLast
  /\ UNCHANGED <<allocator, assocs, components, resources, lazy, pending,
                 guards, issued, declared,
                 lazy_entities, debug_assertions, builder, registration, sweep>>

\* ListenerWorldAccess::set_cancellation; cancel is set_cancellation(true)
SetCancellation(cancelled) ==
  /\ InHandler
  /\ access' = [CountOp EXCEPT
                  !.cancelled = cancelled,
                  !.cancel_calls = IF cancelled THEN 1 ELSE @]
  /\ stack' = [stack EXCEPT
                 ![Len(stack)].own_cancel = IF cancelled THEN TRUE ELSE @]
  /\ last' = NoLast
  /\ UNCHANGED <<allocator, assocs, components, resources, lazy, pending,
                 guards, panic, issued, declared,
                 lazy_entities, debug_assertions, builder, registration, sweep>>

\* ------------------------------------------------- queries and resources
CompGuard(h, e, i, mode) ==
  [holder |-> h, kind |-> "comp", entity |-> e, pos |-> i, res |-> "",
   mode |-> mode]
ResGuard(h, t, mode) ==
  [holder |-> h, kind |-> "res", entity |-> NoEntity, pos |-> 0, res |-> t,
   mode |-> mode]

\* the position of the component of type c in a collection, 0 if none
\* (IndexMap::get)
PosOf(assoc, c) ==
  IF \E i \in 1..Len(assoc) : assoc[i].tid = c
  THEN CHOOSE i \in 1..Len(assoc) : assoc[i].tid = c
  ELSE 0

\* taking a guard of the given mode on a lock: the lock with the guard
Acquire(entry, mode) ==
  IF mode = "Read" THEN [entry EXCEPT !.r = @ + 1]
  ELSE [entry EXCEPT !.w = TRUE]

\* AccessQuery::query with Query for &C (mode Read) and &mut C (mode Write)
Query(e, c, mode) ==
  /\ UserCode
  /\ Len(guards) < MaxGuards
  /\ IF e \notin DOMAIN assocs
     THEN /\ panic' = Panicked("unfinished", e, "")
          /\ UNCHANGED <<assocs, guards, last>>
     ELSE LET i == PosOf(assocs[e], c)
          IN IF i = 0
             THEN /\ last' = [op |-> "query", result |-> "None"]
                  /\ UNCHANGED <<assocs, guards, panic>>
             ELSE IF (mode = "Read" /\ try_read_ok(assocs[e][i]))
                     \/ (mode = "Write" /\ try_write_ok(assocs[e][i]))
             THEN /\ assocs' = [assocs EXCEPT ![e][i] = Acquire(@, mode)]
                  /\ guards' = Append(guards, CompGuard(Holder, e, i, mode))
                  /\ last' = [op |-> "query", result |-> "Some"]
                  /\ UNCHANGED panic
             ELSE /\ panic' = Panicked(IF mode = "Read" THEN "query_read"
                                       ELSE "query_write", e, c)
                  /\ UNCHANGED <<assocs, guards, last>>
  /\ access' = CountOp
  /\ UNCHANGED <<allocator, components, resources, lazy, pending, stack,
                 issued, declared, lazy_entities, debug_assertions, builder, registration, sweep>>

\* a map whose resources share one lock
ResourceLookupSharedLock(t, mode) ==
  IF ~resources[t].present THEN "NotFound"
  ELSE IF \E u \in DOMAIN resources :
            resources[u].w \/ (mode = "Write" /\ resources[u].r > 0)
  THEN "Locked"
  ELSE "Ok"
\* ResourceMap::read (mode Read) and ResourceMap::write (mode Write)
ResourceLookup(t, mode) ==
  IF ~resources[t].present THEN "NotFound"
  ELSE IF (mode = "Read" /\ try_read_ok(resources[t]))
          \/ (mode = "Write" /\ try_write_ok(resources[t]))
  THEN "Ok"
  ELSE IF (mode = "Read" /\ try_read(resources[t]) = "Poisoned")
          \/ (mode = "Write" /\ try_write(resources[t]) = "Poisoned")
  THEN "Poisoned"
  ELSE "Locked"

\* AccessResources::read_resource and write_resource
AccessResource(t, mode) ==
  /\ UserCode
  /\ Len(guards) < MaxGuards
  /\ LET result == ResourceLookup(t, mode)
     IN /\ last' = [op |-> "resource", res |-> t, mode |-> mode,
                    result |-> result]
        /\ IF result = "Ok"
           THEN /\ resources' = [resources EXCEPT ![t] = Acquire(@, mode)]
                /\ guards' = Append(guards, ResGuard(Holder, t, mode))
           ELSE UNCHANGED <<resources, guards>>
  /\ access' = CountOp
  /\ UNCHANGED <<allocator, assocs, components, lazy, pending, stack, panic,
                 issued, declared, lazy_entities, debug_assertions, builder, registration, sweep>>

\* ResourceMap::contains
contains_resource(t) == resources[t].present

\* the instances a caller inserts
ResVals == {1, 2}

\* World::insert_resource: the map takes the new instance, then the old
\* one's lock is unwrapped, which panics if it was poisoned
InsertResource(t, v) ==
  /\ Exclusive
  /\ resources' = [resources EXCEPT ![t] = [present |-> TRUE, r |-> 0,
                                            w |-> FALSE, p |-> FALSE,
                                            val |-> v, failed |-> {}]]
  /\ IF resources[t].present /\ resources[t].p
     THEN /\ panic' = Panicked("insert_poisoned", NoEntity, t)
          /\ last' = NoLast
     ELSE /\ last' = [op |-> "insert_resource", res |-> t, val |-> v,
                      result |-> IF resources[t].present
                                 THEN Some(resources[t].val) ELSE None]
          /\ UNCHANGED panic
  /\ UNCHANGED <<allocator, assocs, components, lazy, pending, stack, access,
                 guards, issued, declared,
                 lazy_entities, debug_assertions, builder, registration, sweep>>

\* World::remove_resource: the entry leaves the map; None if there was none
\* or if its lock was poisoned
RemoveResource(t) ==
  /\ Exclusive
  /\ resources' = [resources EXCEPT ![t] = NoResource]
  /\ last' = [op |-> "remove_resource", res |-> t,
              result |-> IF resources[t].present /\ ~resources[t].p
                         THEN Some(resources[t].val) ELSE None]
  /\ UNCHANGED <<allocator, assocs, components, lazy, pending, stack, access,
                 guards, panic, issued, declared,
                 lazy_entities, debug_assertions, builder, registration, sweep>>

\* World::get_resource: None if there is none or if its lock is poisoned
GetResource(t) ==
  /\ Exclusive
  /\ last' = [op |-> "get_resource", res |-> t,
              result |-> IF resources[t].present /\ ~resources[t].p
                         THEN Some(resources[t].val) ELSE None]
  /\ UNCHANGED <<allocator, assocs, components, resources, lazy, pending,
                 stack, access, guards, panic, issued, declared,
                 lazy_entities, debug_assertions, builder, registration, sweep>>

\* the locks after the guards in gs have been dropped
RECURSIVE ReleaseComps(_, _)
ReleaseComps(as, gs) ==
  IF gs = <<>> THEN as
  ELSE LET g == Head(gs)
       IN ReleaseComps(IF g.kind = "comp"
                       THEN [as EXCEPT ![g.entity][g.pos] = Unlock(@, g.mode)]
                       ELSE as, Tail(gs))

RECURSIVE ReleaseRes(_, _)
ReleaseRes(rs, gs) ==
  IF gs = <<>> THEN rs
  ELSE LET g == Head(gs)
       IN ReleaseRes(IF g.kind = "res"
                     THEN [rs EXCEPT ![g.res] = Unlock(@, g.mode)]
                     ELSE rs, Tail(gs))

HeldBy(h) == SelectSeq(guards, LAMBDA g : g.holder = h)
NotHeldBy(h) == SelectSeq(guards, LAMBDA g : g.holder # h)

\* user code drops one of the guards it took
\* EntityStorage::len_of: the number of components of an entity that has a
\* component collection, a failure for any other handle
len_of_or_zero(as, entity) ==
  [panic |-> NoPanic,
   result |-> IF entity \in DOMAIN as THEN Len(as[entity]) ELSE 0]

len_of(as, entity) ==
  IF entity \notin DOMAIN as
  THEN [panic |-> Panicked("len_of_dead", entity, ""), result |-> 0]
  ELSE [panic |-> NoPanic, result |-> Len(as[entity])]

\* World::len_of and ListenerWorldAccess::len_of
LenOf(e) ==
  /\ UserCode
  /\ LET done == len_of(assocs, e)
     IN /\ panic' = done.panic
        /\ last' = IF done.panic = NoPanic
                   THEN [op |-> "len_of", entity |-> e, result |-> done.result]
                   ELSE last
  /\ access' = CountOp
  /\ UNCHANGED <<allocator, assocs, components, resources, lazy, pending,
                 stack, guards, issued, declared,
                 lazy_entities, debug_assertions, builder, registration, sweep>>

\* World::liveness and ListenerWorldAccess::liveness: the probe fails only
\* for a handle that is in the assocs but not in the allocator
LivenessOf(e) ==
  /\ UserCode
  /\ LET result == liveness(allocator, assocs, e)
     IN IF result = "Panic"
        THEN /\ panic' = Panicked("assocs_not_allocator", e, "")
             /\ UNCHANGED last
        ELSE /\ last' = [op |-> "liveness", entity |-> e, result |-> result]
             /\ UNCHANGED panic
  /\ access' = CountOp
  /\ UNCHANGED <<allocator, assocs, components, resources, lazy, pending,
                 stack, guards, issued, declared,
                 lazy_entities, debug_assertions, builder, registration, sweep>>

DropGuard(k) ==
  /\ panic = NoPanic
  /\ IF stack = <<>> THEN ~sweep.active ELSE Top.phase = "handler"
  /\ k \in 1..Len(guards)
  /\ guards[k].holder = Holder
  /\ assocs' = ReleaseComps(assocs, <<guards[k]>>)
  /\ resources' = ReleaseRes(resources, <<guards[k]>>)
  /\ guards' = RemoveAt(guards, k)
  /\ last' = NoLast
  /\ UNCHANGED <<allocator, components, lazy, pending, stack, access, panic,
                 issued, declared, lazy_entities, debug_assertions, builder, registration, sweep>>

\* ------------------------------------------------------ panics, unwinding
\* user code panics: the caller inside a catch_unwind, or a handler
UserPanic ==
  /\ panic = NoPanic
  /\ IF stack = <<>> THEN ~sweep.active ELSE Top.phase = "handler"
  /\ panic' = Panicked("user", NoEntity, "")
  /\ last' = NoLast
  /\ UNCHANGED <<allocator, assocs, components, resources, lazy, pending,
                 stack, access, guards, issued, declared,
                 lazy_entities, debug_assertions, builder, registration,
                 sweep>>

\* a guard that unlocks as usual when its holder unwinds
UnlockWithoutPoison(entry, kind) ==
  IF kind = "Read" THEN [entry EXCEPT !.r = @ - 1]
  ELSE [entry EXCEPT !.w = FALSE]
\* a guard is dropped while its holder unwinds: RwLockWriteGuard poisons the
\* lock, RwLockReadGuard does not
UnlockPanicking(entry, kind) ==
  IF kind = "Read" THEN [entry EXCEPT !.r = @ - 1]
  ELSE [entry EXCEPT !.w = FALSE, !.p = TRUE]

RECURSIVE UnwindComps(_, _)
UnwindComps(as, gs) ==
  IF gs = <<>> THEN as
  ELSE LET g == Head(gs)
       IN UnwindComps(IF g.kind = "comp"
                      THEN [as EXCEPT ![g.entity][g.pos] =
                                        UnlockPanicking(@, g.mode)]
                      ELSE as, Tail(gs))

RECURSIVE UnwindRes(_, _)
UnwindRes(rs, gs) ==
  IF gs = <<>> THEN rs
  ELSE LET g == Head(gs)
       IN UnwindRes(IF g.kind = "res"
                    THEN [rs EXCEPT ![g.res] =
                            [UnlockPanicking(@, g.mode) EXCEPT
                               !.failed = @ \cup {g.mode}]]
                    ELSE rs, Tail(gs))

\* the locks that dispatch_even_innerer holds around the running handlers
RECURSIVE UnwindFrames(_, _)
UnwindFrames(as, stk) ==
  IF stk = <<>> THEN as
  ELSE LET f == Head(stk)
       IN UnwindFrames(
            IF f.phase = "handler"
            THEN [as EXCEPT ![f.target][f.idx] =
                     UnlockPanicking(@, MsgTable(as[f.target][f.idx].tid,
                                                 f.msg.type))]
            ELSE as, Tail(stk))

\* the elements of s at the positions in K, in order
RECURSIVE Sel(_, _)
Sel(s, K) ==
  IF s = <<>> THEN <<>>
  ELSE LET n == Len(s)
           init == Sel(SubSeq(s, 1, n - 1), K)
       IN IF n \in K THEN Append(init, s[n]) ELSE init

\* the unwinding: the running dispatch with its handlers, their guards and
\* builders are dropped, and so are the caller's guards that live inside the
\* catch_unwind (scope)
Unwind(scope) ==
  /\ LET gone == {k \in 1..Len(guards) : guards[k].holder # 0} \cup scope
         dropped == Sel(guards, gone)
     IN /\ assocs' = UnwindFrames(UnwindComps(assocs, dropped), stack)
        /\ resources' = UnwindRes(resources, dropped)
        /\ guards' = Sel(guards, (1..Len(guards)) \ gone)
        /\ last' = [op |-> "catch_unwind",
                    failed |-> {[res |-> dropped[k].res,
                                 mode |-> dropped[k].mode] :
                                  k \in {j \in 1..Len(dropped) :
                                           dropped[j].kind = "res"}}]
  /\ pending' = {b \in pending : b.holder = 0}
  /\ stack' = <<>>
  /\ access' = NoAccess
  /\ sweep' = [sweep EXCEPT !.active = FALSE, !.todo = {}]
  /\ panic' = NoPanic
  /\ UNCHANGED <<allocator, components, lazy, issued, declared,
                 lazy_entities, debug_assertions, builder, registration>>

\* the panic unwinds into a catch_unwind of the caller
CatchUnwind ==
  /\ panic # NoPanic
  /\ \E scope \in SUBSET {k \in 1..Len(guards) : guards[k].holder = 0} :
       Unwind(scope)

\* ------------------------------------------------------- shaped queries
\* the types that implement Query: &C, &mut C, Option<Q> and tuples
Ref(c) == [shape |-> "ref", tid |-> c, sub |-> <<>>]
Mut(c) == [shape |-> "mut", tid |-> c, sub |-> <<>>]
Opt(q) == [shape |-> "opt", tid |-> "", sub |-> <<q>>]
Tup(qs) == [shape |-> "tuple", tid |-> "", sub |-> qs]

\* what Q::query gives: the locks after it, its Option<Response>, the
\* failure if it panics, and the guards that the response holds (or, at a
\* failure, the guards taken so far, which the unwinding drops)
Queried(as, response, failure, held) ==
  [assocs |-> as, response |-> response, panic |-> failure, held |-> held]

\* a query that takes the component for granted
QueryComponentUnwrap(q, e, as) ==
  LET i == PosOf(as[e], q.tid)
      mode == IF q.shape = "ref" THEN "Read" ELSE "Write"
  IN IF i = 0 THEN Queried(as, None, Panicked("unwrap", e, q.tid), <<>>)
     ELSE Queried([as EXCEPT ![e][i] = Acquire(@, mode)],
                  Some([tid |-> q.tid, mode |-> mode]), NoPanic,
                  <<CompGuard(Holder, e, i, mode)>>)
\* Query for &C and for &mut C: None without the component, else try_read
\* or try_write, whose failure is a panic
QueryComponent(q, e, as) ==
  LET i == PosOf(as[e], q.tid)
      mode == IF q.shape = "ref" THEN "Read" ELSE "Write"
  IN IF i = 0 THEN Queried(as, None, NoPanic, <<>>)
     ELSE IF (mode = "Read" /\ try_read_ok(as[e][i]))
             \/ (mode = "Write" /\ try_write_ok(as[e][i]))
     THEN Queried([as EXCEPT ![e][i] = Acquire(@, mode)],
                  Some([tid |-> q.tid, mode |-> mode]), NoPanic,
                  <<CompGuard(Holder, e, i, mode)>>)
     ELSE Queried(as, None,
                  Panicked(IF mode = "Read" THEN "query_read"
                           ELSE "query_write", e, q.tid), <<>>)

RECURSIVE query(_, _, _)
RECURSIVE query_members(_, _, _)

\* Query for Option<Q>, and the dispatch on the shape
query(q, e, as) ==
  IF q.shape \in {"ref", "mut"} THEN QueryComponent(q, e, as)
  ELSE IF q.shape = "opt"
  THEN LET r == query(q.sub[1], e, as)
       IN IF r.panic # NoPanic THEN r
          ELSE [r EXCEPT !.response = Some(r.response)]
  ELSE query_members(q.sub, e, Queried(as, Some(<<>>), NoPanic, <<>>))

\* Query for tuples: the members in order, each with ?, so that the first
\* None ends the query and drops the responses made so far
query_members(subs, e, r) ==
  IF subs = <<>> THEN r
  ELSE LET m == query(Head(subs), e, r.assocs)
       IN IF m.panic # NoPanic
          THEN Queried(m.assocs, None, m.panic, r.held \o m.held)
          ELSE IF m.response = None
          THEN Queried(ReleaseComps(m.assocs, r.held), None, NoPanic, <<>>)
          ELSE query_members(Tail(subs), e,
                 Queried(m.assocs, Some(Append(r.response[1], m.response[1])),
                         NoPanic, r.held \o m.held))

\* AccessQuery::query for World and for ListenerWorldAccess with a query of
\* the shape q: EntityStorage::get, then Q::query; a panic inside Q::query
\* drops the guards that the query has taken
QueryShape(e, q) ==
  /\ UserCode
  /\ Len(guards) < MaxGuards
  /\ IF e \notin DOMAIN assocs
     THEN /\ panic' = Panicked("unfinished", e, "")
          /\ UNCHANGED <<assocs, guards, last>>
     ELSE LET r == query(q, e, assocs)
          IN IF r.panic # NoPanic
             THEN /\ panic' = r.panic
                  /\ assocs' = UnwindComps(r.assocs, r.held)
                  /\ UNCHANGED <<guards, last>>
             ELSE /\ assocs' = r.assocs
                  /\ guards' = guards \o r.held
                  /\ last' = [op |-> "query_shape", entity |-> e,
                              shape |-> q, response |-> r.response]
                  /\ UNCHANGED panic
  /\ access' = CountOp
  /\ UNCHANGED <<allocator, components, resources, lazy, pending, stack,
                 issued, declared, lazy_entities, debug_assertions, builder, registration,
                 sweep>>

\* ------------------------------------------- the rest of the dispatch loop
\* a walk that never looks at the cancellation flag
is_cancelled_never(acc) == FALSE

\* ListenerWorldAccess::is_cancelled
is_cancelled(acc) == acc.cancelled

\* the handler returns: its guards and unbuilt builders are dropped, the
\* component's lock is released, msg = msg2, and the walk breaks if the
\* access is cancelled
HandlerReturn ==
  /\ panic = NoPanic
  /\ stack # <<>>
  /\ Top.phase = "handler"
  /\ LET f == Top
         n == Len(stack)
         tid == assocs[f.target][f.idx].tid
         kind == MsgTable(tid, f.msg.type)
         freed == ReleaseComps(assocs, HeldBy(f.id))
     IN /\ assocs' = [freed EXCEPT ![f.target][f.idx] = Unlock(@, kind)]
        /\ resources' = ReleaseRes(resources, HeldBy(f.id))
        /\ guards' = NotHeldBy(f.id)
        /\ pending' = {b \in pending : b.holder # f.id}
        /\ stack' = [stack EXCEPT
                       ![n].msg = Handle(tid, f.msg),
                       ![n].phase = IF is_cancelled(access) THEN "drain"
                                    ELSE "walk",
                       ![n].idx = IF is_cancelled(access) THEN f.idx
                                  ELSE f.idx + 1,
                       ![n].cancelled_at = IF access.cancelled THEN f.idx
                                           ELSE 0]
  /\ last' = NoLast
  /\ UNCHANGED <<allocator, components, lazy, access, panic, issued, declared,
                 lazy_entities, debug_assertions, builder, registration, sweep>>

\* the for loop over queued_message_rx().try_iter(): the next queued message
\* is received and dispatched on the same access
Drain ==
  /\ panic = NoPanic
  /\ stack # <<>>
  /\ Top.phase = "drain"
  /\ access.queued # <<>>
  /\ LET q == Head(access.queued)
         in == Enter(stack, [access EXCEPT !.queued = Tail(@),
                                           !.delivered = Append(@, q)],
                     q.target, q.msg, "queued", q.by)
     IN /\ stack' = in.stack
        /\ access' = in.access
        /\ panic' = in.panic
  /\ last' = NoLast
  /\ UNCHANGED <<allocator, assocs, components, resources, lazy, pending,
                 guards, issued, declared,
                 lazy_entities, debug_assertions, builder, registration, sweep>>

\* dispatch_even_innerer returns msg: to the handler that dispatched, to the
\* drain loop that delivered (which discards it), or to the World's caller
ReturnUndrained ==
  /\ panic = NoPanic
  /\ stack # <<>>
  /\ Top.phase = "drain"
  /\ stack' = SubSeq(stack, 1, Len(stack) - 1)
  /\ IF Top.via = "top"
     THEN /\ last' = [op |-> "dispatch", target |-> Top.target,
                      msg |-> Top.msg, ran |-> Top.ran,
                      cancelled_at |-> Top.cancelled_at]
          /\ access' = NoAccess
     ELSE /\ last' = NoLast
          /\ UNCHANGED access
  /\ UNCHANGED <<allocator, assocs, components, resources, lazy, pending,
                 guards, panic, issued, declared,
                 lazy_entities, debug_assertions, builder, registration, sweep>>

Return ==
  /\ panic = NoPanic
  /\ stack # <<>>
  /\ Top.phase = "drain"
  /\ access.queued = <<>>
  /\ stack' = SubSeq(stack, 1, Len(stack) - 1)
  /\ IF Top.via = "top"
     THEN /\ last' = [op |-> "dispatch", target |-> Top.target,
                      msg |-> Top.msg, ran |-> Top.ran,
                      cancelled_at |-> Top.cancelled_at]
          /\ access' = NoAccess
     ELSE /\ last' = NoLast
          /\ UNCHANGED access
  /\ UNCHANGED <<allocator, assocs, components, resources, lazy, pending,
                 guards, panic, issued, declared,
                 lazy_entities, debug_assertions, builder, registration, sweep>>

\* ------------------------------------------------------- dispatch_to_all
\* World::dispatch_to_all: the iterator over the entities is made
DispatchToAll(mtype) ==
  /\ Idle
  /\ sweep' = [sweep EXCEPT !.active = TRUE, !.mtype = mtype,
                            !.todo = DOMAIN assocs,
                            !.alive = {e \in issued : Liveness(e) = "Alive"},
                            !.sent = [e \in issued |-> 0]]
  /\ last' = NoLast
  /\ UNCHANGED <<allocator, assocs, components, resources, lazy, pending,
                 stack, access, guards, panic, issued, declared,
                 lazy_entities, debug_assertions, builder, registration>>

\* a loop whose iterator gives the same entity again
SweepDispatchAgain(e) ==
  /\ panic = NoPanic
  /\ sweep.active
  /\ stack = <<>>
  /\ e \in sweep.todo
  /\ LET in == Enter(stack, ListenerWorldAccessNew, e, Msg(sweep.mtype, <<>>),
                     "top", 0)
     IN /\ stack' = in.stack
        /\ access' = IF in.panic = NoPanic THEN in.access ELSE access
        /\ panic' = in.panic
  /\ sweep' = [sweep EXCEPT !.sent[e] = @ + 1]
  /\ last' = NoLast
  /\ UNCHANGED <<allocator, assocs, components, resources, lazy, pending,
                 guards, issued, declared, lazy_entities, debug_assertions, builder, registration>>
\* the body of the loop of dispatch_to_all: the iterator (over a hash map,
\* so in any order) gives the next entity and a clone of the message is
\* dispatched to it, on an access of its own
SweepDispatch(e) ==
  /\ panic = NoPanic
  /\ sweep.active
  /\ stack = <<>>
  /\ e \in sweep.todo
  /\ LET in == Enter(stack, ListenerWorldAccessNew, e, Msg(sweep.mtype, <<>>),
                     "top", 0)
     IN /\ stack' = in.stack
        /\ access' = IF in.panic = NoPanic THEN in.access ELSE access
        /\ panic' = in.panic
  /\ sweep' = [sweep EXCEPT !.todo = @ \ {e},
                            !.sent = IF e \in DOMAIN @
                                     THEN [@ EXCEPT ![e] = @ + 1] ELSE @]
  /\ last' = NoLast
  /\ UNCHANGED <<allocator, assocs, components, resources, lazy, pending,
                 guards, issued, declared, lazy_entities, debug_assertions, builder, registration>>

\* the iterator is exhausted: dispatch_to_all returns
SweepReturn ==
  /\ panic = NoPanic
  /\ sweep.active
  /\ stack = <<>>
  /\ sweep.todo = {}
  /\ sweep' = [sweep EXCEPT !.active = FALSE, !.calls = @ + 1]
  /\ last' = [op |-> "dispatch_to_all"]
  /\ UNCHANGED <<allocator, assocs, components, resources, lazy, pending,
                 stack, access, guards, panic, issued, declared,
                 lazy_entities, debug_assertions, builder, registration>>

\* the Rabbit component of the spawn tests: what its handler for each
\* message type does with its access, call by call (Rabbit::mitosis and
\* Rabbit::reproduce_and_die)
RabbitScript(mtype) ==
  CASE mtype = "Mitosis" -> <<"spawn">>
    [] mtype = "ReproduceAndDie" -> <<"spawn", "despawn_this", "spawn">>
    [] OTHER -> <<>>

\* the calls of a handler's body, one after the other:
\* access.lazy_spawn().with(Rabbit).build() and access.lazy_despawn(this)
RECURSIVE RunScript(_, _, _)
RunScript(w, this, ops) ==
  IF ops = <<>> THEN w
  ELSE IF Head(ops) = "spawn"
  THEN LET got == insert(w.allocator)
       IN RunScript([allocator |-> got.alloc,
                     lazy |-> Append(w.lazy,
                                FinishEntity(InsertAll(<<>>, <<"Rabbit">>),
                                             got.entity)),
                     issued |-> w.issued \cup {got.entity},
                     declared |-> With(w.declared, got.entity, <<"Rabbit">>)],
                    this, Tail(ops))
  ELSE RunScript([w EXCEPT !.lazy = Append(@, DespawnEntity(this))],
                 this, Tail(ops))

\* the handler of a Rabbit runs: the whole body, up to its return statement
RabbitHandler ==
  /\ panic = NoPanic
  /\ stack # <<>>
  /\ Top.phase = "handler"
  /\ assocs[Top.target][Top.idx].tid = "Rabbit"
  /\ access.nops = 0
  /\ LET ops == RabbitScript(Top.msg.type)
         done == RunScript([allocator |-> allocator, lazy |-> lazy,
                            issued |-> issued, declared |-> declared],
                           Top.target, ops)
     IN /\ allocator' = done.allocator
        /\ lazy' = done.lazy
        /\ issued' = done.issued
        /\ declared' = done.declared
        /\ access' = [access EXCEPT !.nops = Len(ops)]
  /\ last' = NoLast
  /\ UNCHANGED <<assocs, components, resources, pending, stack, guards,
                 panic, lazy_entities, debug_assertions, builder, registration, sweep>>

\* ------------------------------------- world.rs: lazy spawns by counters
\* EntityAllocator::insert_increasing: the new entity goes to the end of
\* the items, whatever the free list holds
insert_increasing(a) ==
  [alloc |-> [a EXCEPT !.items = Append(@, OccEntry(a.generation)),
                       !.len = @ + 1],
   entity |-> Entity(Len(a.items), a.generation)]

SpawnEntity(comps, e) == [kind |-> "SpawnEntity", comps |-> comps, entity |-> e]

\* World::spawn_empty of world.rs, called between a finalize and the next
\* lazy call
WorldSpawnEmpty ==
  /\ panic = NoPanic
  /\ pending = {}
  /\ lazy = <<>>
  /\ lazy_entities = NoLazyEntities
  /\ Cardinality(issued) < MaxAllocs
  /\ LET got == insert(allocator)
     IN /\ allocator' = got.alloc
        /\ issued' = issued \cup {got.entity}
  /\ last' = NoLast
  /\ UNCHANGED <<assocs, components, resources, lazy, pending, stack, access,
                 guards, panic, declared, lazy_entities, debug_assertions,
                 builder, registration, sweep>>

\* the handle that lazy_spawn computes from the counters
WorldAccessLazySpawnAtEnd ==
  Entity(Len(allocator.items) + lazy_entities.created,
         allocator.generation + lazy_entities.deleted)

\* WorldAccess::lazy_spawn of world.rs, up to the builder it returns
WorldAccessLazySpawn ==
  /\ panic = NoPanic
  /\ Cardinality(issued) < MaxAllocs
  /\ Cardinality(pending) < MaxPending
  /\ lazy_entities.created < MaxLazy
  /\ lazy_entities' = [lazy_entities EXCEPT !.created = @ + 1]
  /\ pending' = pending \cup {[entity |-> WorldAccessLazySpawnAtEnd,
                                holder |-> 0]}
  /\ issued' = issued \cup {WorldAccessLazySpawnAtEnd}
  /\ last' = NoLast
  /\ UNCHANGED <<allocator, assocs, components, resources, lazy, stack,
                 access, guards, panic, declared, debug_assertions, builder,
                 registration, sweep>>

\* LazyEntityBuilder::build: the spawn is queued with the handle that the
\* builder was given
LazyEntityBuilderBuild(b) ==
  /\ panic = NoPanic
  /\ b \in pending
  /\ Send(SpawnEntity(<<>>, b.entity))
  /\ pending' = pending \ {b}
  /\ last' = NoLast
  /\ UNCHANGED <<allocator, assocs, components, resources, stack, access,
                 guards, panic, issued, declared, lazy_entities,
                 debug_assertions, builder, registration, sweep>>

\* WorldAccess::lazy_despawn of world.rs
WorldAccessLazyDespawn(e) ==
  /\ panic = NoPanic
  /\ Send(DespawnEntity(e))
  /\ lazy_entities' = [lazy_entities EXCEPT !.deleted = @ + 1]
  /\ last' = NoLast
  /\ UNCHANGED <<allocator, assocs, components, resources, pending, stack,
                 access, guards, panic, issued, declared, debug_assertions,
                 builder, registration, sweep>>

\* LazyUpdate::apply of world.rs for the two updates that spawn and despawn:
\* assigned lists the handle expected and the handle given for every spawn
LazyUpdateApply(w, u) ==
  IF u.kind = "SpawnEntity"
  THEN LET new == insert_increasing(w.allocator)
       IN IF debug_assertions /\ new.entity # u.entity
          THEN [w EXCEPT !.allocator = new.alloc,
                         !.panic = Panicked("assert_eq", u.entity, "")]
          ELSE [w EXCEPT !.allocator = new.alloc,
                         !.assigned = Append(@, [expect |-> u.entity,
                                                 new |-> new.entity])]
  ELSE IF contains(w.allocator, u.entity)
  THEN [w EXCEPT !.allocator = remove(@, u.entity)]
  ELSE [w EXCEPT !.panic = Panicked("already_removed", u.entity, "")]

RECURSIVE LazyUpdateApplyAll(_, _)
LazyUpdateApplyAll(w, updates) ==
  IF updates = <<>> \/ w.panic # NoPanic THEN w
  ELSE LazyUpdateApplyAll(LazyUpdateApply(w, Head(updates)), Tail(updates))

\* World::finalize of world.rs: the updates in the order of the channel,
\* then both counters back to zero
WorldFinalize ==
  /\ panic = NoPanic
  /\ pending = {}
  /\ LET done == LazyUpdateApplyAll([allocator |-> allocator,
                                     panic |-> NoPanic, assigned |-> <<>>],
                                    lazy)
     IN /\ allocator' = done.allocator
        /\ panic' = done.panic
        /\ lazy_entities' = IF done.panic = NoPanic THEN NoLazyEntities
                            ELSE lazy_entities
        /\ last' = IF done.panic = NoPanic
                   THEN [op |-> "world_finalize", applied |-> lazy,
                         assigned |-> done.assigned]
                   ELSE NoLast
  /\ lazy' = <<>>
  /\ UNCHANGED <<assocs, components, resources, pending, stack, access,
                 guards, issued, declared, debug_assertions, builder,
                 registration, sweep>>

\* ------------------------------------------------- the yak shaver's test
\* usize::MAX, at the widest that TLC counts in: 31 bits for the 64 of the
\* build; a wrapped count only has to be far above MaxShaves
USIZE_MAX == 2147483647

\* msg.shaves -= 1 on a usize: a build with overflow checks fails on zero,
\* a build without them wraps
Decremented(shaves) ==
  IF shaves > 0 THEN Some(shaves - 1)
  ELSE IF debug_assertions THEN None
  ELSE Some(USIZE_MAX)

\* World::dispatch(e, MsgShaveYak::new(n))
ShaveYak(e, n) ==
  /\ Idle
  /\ e \in DOMAIN assocs
  /\ \A i \in 1..Len(assocs[e]) : assocs[e][i].val.yaks_shaved = 0
  /\ LET in == Enter(stack, ListenerWorldAccessNew, e, Msg("MsgShaveYak", n),
                     "top", 0)
     IN /\ stack' = in.stack
        /\ access' = in.access
        /\ panic' = in.panic
  /\ last' = NoLast
  /\ UNCHANGED <<allocator, assocs, components, resources, lazy, pending,
                 guards, issued, declared,
                 lazy_entities, debug_assertions, builder, registration, sweep>>

\* a shaver that passes the message on synchronously instead of queueing it
YakShaverHandlerNeverDefers ==
  /\ panic = NoPanic
  /\ stack # <<>>
  /\ Top.phase = "handler"
  /\ Len(stack) <= MaxShaves
  /\ LET f == Top
         n == Len(stack)
         this == assocs[f.target][f.idx]
         left == Decremented(f.msg.val)
     IN IF left = None
        THEN /\ panic' = Panicked("overflow", f.target, this.tid)
             /\ UNCHANGED <<assocs, stack, access>>
        ELSE LET msg == [f.msg EXCEPT !.val = left[1]]
                 that == [this EXCEPT !.val.yaks_shaved = @ + 1]
             IN IF msg.val > 0
                THEN LET in == Enter(stack, access, f.target, msg, "nested", 0)
                     IN /\ assocs' = [assocs EXCEPT ![f.target][f.idx] = that]
                        /\ stack' = in.stack
                        /\ access' = in.access
                        /\ panic' = in.panic
                ELSE /\ assocs' = [assocs EXCEPT
                                     ![f.target][f.idx] = Unlock(that, "Write")]
                     /\ stack' =
                          [stack EXCEPT
                             ![n].msg = msg,
                             ![n].phase = IF is_cancelled(access) THEN "drain"
                                          ELSE "walk",
                             ![n].idx = IF is_cancelled(access) THEN f.idx
                                        ELSE f.idx + 1]
                     /\ UNCHANGED <<access, panic>>
  /\ last' = NoLast
  /\ UNCHANGED <<allocator, components, resources, lazy, pending, guards,
                 issued, declared, lazy_entities, debug_assertions, builder, registration,
                 sweep>>

\* the write handler of YakShaver, from its call to its return or to the
\* failure inside it: the count of the message goes down, the shaver's goes
\* up, and while the message's count is positive a clone of the message is
\* queued to the own entity, or dispatched to it at once by a shaver that
\* does not defer
YakShaverHandler ==
  /\ panic = NoPanic
  /\ stack # <<>>
  /\ Top.phase = "handler"
  /\ Len(stack) <= MaxShaves
  /\ LET f == Top
         n == Len(stack)
         this == assocs[f.target][f.idx]
         left == Decremented(f.msg.val)
     IN IF left = None
        THEN /\ panic' = Panicked("overflow", f.target, this.tid)
             /\ UNCHANGED <<assocs, stack, access>>
        ELSE LET msg == [f.msg EXCEPT !.val = left[1]]
                 that == [this EXCEPT !.val.yaks_shaved = @ + 1]
                 q == [msg |-> msg, target |-> f.target, by |-> f.id]
             IN IF msg.val > 0 /\ ~this.val.defer
                THEN LET in == Enter(stack, access, f.target, msg, "nested", 0)
                     IN /\ assocs' = [assocs EXCEPT ![f.target][f.idx] = that]
                        /\ stack' = in.stack
                        /\ access' = in.access
                        /\ panic' = in.panic
                ELSE /\ assocs' = [assocs EXCEPT
                                     ![f.target][f.idx] = Unlock(that, "Write")]
                     /\ access' = IF msg.val > 0
                                  THEN [access EXCEPT
                                          !.queued = Append(@, q),
                                          !.sent = Append(@, q)]
                                  ELSE access
                     /\ stack' =
                          [stack EXCEPT
                             ![n].msg = msg,
                             ![n].phase = IF is_cancelled(access) THEN "drain"
                                          ELSE "walk",
                             ![n].idx = IF is_cancelled(access) THEN f.idx
                                        ELSE f.idx + 1]
                     /\ UNCHANGED panic
  /\ last' = NoLast
  /\ UNCHANGED <<allocator, components, resources, lazy, pending, guards,
                 issued, declared, lazy_entities, debug_assertions, builder, registration,
                 sweep>>

\* ------------------------------------------- Component::register, by steps
\* World::register_component up to its call of Component::register
BeginRegister(c) ==
  /\ Exclusive
  /\ registerer = NoRegisterer
  /\ IF c \in components
     THEN /\ panic' = Panicked("already_registered", NoEntity, c)
          /\ UNCHANGED registerer
     ELSE /\ registerer' = ComponentRegistererNew(c)
          /\ UNCHANGED panic
  /\ last' = NoLast
  /\ UNCHANGED <<allocator, assocs, components, resources, lazy, pending,
                 stack, access, guards, issued, declared, lazy_entities, debug_assertions, builder,
                 sweep, vtables, COMPONENT_REGISTRATORS, COMPONENT_VTABLES>>

\* Component::register is running
Registering == panic = NoPanic /\ registerer # NoRegisterer

\* a handle call that replaces the handler the type has for the message
DeclareHandlerOverwriting(m, kind) ==
  /\ Registering
  /\ registerer' = [registerer EXCEPT
                      !.handlers = MapInsert(@, m, kind),
                      !.calls = Append(@, [msg |-> m, kind |-> kind])]
  /\ last' = NoLast
  /\ UNCHANGED <<allocator, assocs, components, resources, lazy, pending,
                 stack, access, guards, panic, issued, declared,
                 lazy_entities, debug_assertions, builder, sweep, vtables, COMPONENT_REGISTRATORS,
                 COMPONENT_VTABLES>>
\* ComponentRegisterer::handle_read (kind Read) and handle_write (kind Write)
DeclareHandler(m, kind) ==
  /\ Registering
  /\ IF m \in DOMAIN registerer.handlers
     THEN /\ panic' = Panicked(IF kind = "Read" THEN "handle_read_twice"
                               ELSE "handle_write_twice", NoEntity,
                               registerer.tid)
          /\ UNCHANGED registerer
     ELSE /\ registerer' = [registerer EXCEPT
                              !.handlers = MapInsert(@, m, kind),
                              !.calls = Append(@, [msg |-> m, kind |-> kind])]
          /\ UNCHANGED panic
  /\ last' = NoLast
  /\ UNCHANGED <<allocator, assocs, components, resources, lazy, pending,
                 stack, access, guards, issued, declared, lazy_entities, debug_assertions, builder,
                 sweep, vtables, COMPONENT_REGISTRATORS, COMPONENT_VTABLES>>

\* ComponentRegisterer::register_create_callback
RegisterCreateCallback ==
  /\ Registering
  /\ IF registerer.create_cb
     THEN /\ panic' = Panicked("create_callback_exists", NoEntity,
                               registerer.tid)
          /\ UNCHANGED registerer
     ELSE /\ registerer' = [registerer EXCEPT !.create_cb = TRUE]
          /\ UNCHANGED panic
  /\ last' = NoLast
  /\ UNCHANGED <<allocator, assocs, components, resources, lazy, pending,
                 stack, access, guards, issued, declared, lazy_entities, debug_assertions, builder,
                 sweep, vtables, COMPONENT_REGISTRATORS, COMPONENT_VTABLES>>

\* ComponentRegisterer::register_remove_callback
RegisterRemoveCallback ==
  /\ Registering
  /\ IF registerer.remove_cb
     THEN /\ panic' = Panicked("remove_callback_exists", NoEntity,
                               registerer.tid)
          /\ UNCHANGED registerer
     ELSE /\ registerer' = [registerer EXCEPT !.remove_cb = TRUE]
          /\ UNCHANGED panic
  /\ last' = NoLast
  /\ UNCHANGED <<allocator, assocs, components, resources, lazy, pending,
                 stack, access, guards, issued, declared, lazy_entities, debug_assertions, builder,
                 sweep, vtables, COMPONENT_REGISTRATORS, COMPONENT_VTABLES>>

\* ComponentRegisterer::set_friendly_name
SetFriendlyName(name) ==
  /\ Registering
  /\ IF registerer.friendly_name # None
     THEN /\ panic' = Panicked("friendly_name_set", NoEntity, registerer.tid)
          /\ UNCHANGED registerer
     ELSE /\ registerer' = [registerer EXCEPT !.friendly_name = Some(name)]
          /\ UNCHANGED panic
  /\ last' = NoLast
  /\ UNCHANGED <<allocator, assocs, components, resources, lazy, pending,
                 stack, access, guards, issued, declared, lazy_entities, debug_assertions, builder,
                 sweep, vtables, COMPONENT_REGISTRATORS, COMPONENT_VTABLES>>

\* Component::register returns: World::register_component stores the vtable
EndRegister ==
  /\ Registering
  /\ components' = components \cup {registerer.tid}
  /\ vtables' = MapInsert(vtables, registerer.tid, into_vtable(registerer))
  /\ registerer' = NoRegisterer
  /\ last' = NoLast
  /\ UNCHANGED <<allocator, assocs, resources, lazy, pending, stack, access,
                 guards, panic, issued, declared, lazy_entities, debug_assertions, builder, sweep,
                 COMPONENT_REGISTRATORS, COMPONENT_VTABLES>>

\* ---------------------------------------------------- the static registry
\* the component types that a program links registrators for
StaticTypes == {"A", "B", "x::A"}

\* ComponentVtables::get_inner, the loop over COMPONENT_REGISTRATORS: a
\* vtable whose type or friendly name is taken already is reported on stderr
\* and skipped
RECURSIVE collect(_, _)
collect(me, regs) ==
  IF regs = <<>> THEN me
  ELSE LET vtable == into_vtable(Register(Head(regs)))
           idx == Len(me.tables) + 1
       IN IF vtable.tid \in DOMAIN me.by_tid
          THEN collect(me, Tail(regs))
          ELSE IF vtable.friendly_name \in DOMAIN me.by_friendly_name
          THEN collect(me, Tail(regs))
          ELSE collect([tables |-> Append(me.tables, vtable),
                        by_tid |-> MapInsert(me.by_tid, vtable.tid, idx),
                        by_friendly_name |->
                          MapInsert(me.by_friendly_name,
                                    vtable.friendly_name, idx)],
                       Tail(regs))

\* ComponentVtables::get_inner: OnceLock::get_or_init
get_inner ==
  IF COMPONENT_VTABLES = None
  THEN collect([tables |-> <<>>, by_tid |-> <<>>, by_friendly_name |-> <<>>],
               COMPONENT_REGISTRATORS)
  ELSE COMPONENT_VTABLES[1]

\* ComponentVtables::by_tid
ByTid(tid) ==
  /\ Idle
  /\ COMPONENT_VTABLES' = Some(get_inner)
  /\ IF tid \in DOMAIN get_inner.by_tid
     THEN /\ last' = [op |-> "by_tid",
                      result |-> get_inner.tables[get_inner.by_tid[tid]]]
          /\ UNCHANGED panic
     ELSE /\ panic' = Panicked("unregistered_access", NoEntity, tid)
          /\ last' = NoLast
  /\ UNCHANGED <<allocator, assocs, components, resources, lazy, pending,
                 stack, access, guards, issued, declared, lazy_entities, debug_assertions, builder,
                 sweep, vtables, registerer, COMPONENT_REGISTRATORS>>

\* ComponentVtables::by_friendly_name
ByFriendlyName(name) ==
  /\ Idle
  /\ COMPONENT_VTABLES' = Some(get_inner)
  /\ IF name \in DOMAIN get_inner.by_friendly_name
     THEN /\ last' = [op |-> "by_friendly_name",
                      result |->
                        get_inner.tables[get_inner.by_friendly_name[name]]]
          /\ UNCHANGED panic
     ELSE /\ panic' = Panicked("unknown_friendly_name", NoEntity, name)
          /\ last' = NoLast
  /\ UNCHANGED <<allocator, assocs, components, resources, lazy, pending,
                 stack, access, guards, issued, declared, lazy_entities, debug_assertions, builder,
                 sweep, vtables, registerer, COMPONENT_REGISTRATORS>>

\* ------------------------------------------- the builder, call by call
\* the values that the caller's components hold
CompVals == {1, 2}

\* a component of a type, holding a value
Comp(tid, val) == [tid |-> tid, val |-> val]

\* the types of a list of components, in the order of the list
TidsOf(comps) == [i \in 1..Len(comps) |-> comps[i].tid]

\* a tracker that pushes every component it is given
TrackerInsertRawPush(tr, component) ==
  [tracker |-> [tr EXCEPT !.components = Append(@, component)],
   old |-> None]
\* EntityBuilderComponentTracker::insert_raw: the tracker after the call
\* and what the call returns
TrackerInsertRaw(tr, component) ==
  IF component.tid \in DOMAIN tr.component_idxs
  THEN LET clobberee == tr.component_idxs[component.tid]
       IN [tracker |-> [tr EXCEPT !.components[clobberee + 1] = component],
           old |-> Some(tr.components[clobberee + 1])]
  ELSE LET idx == Len(tr.components)
       IN [tracker |->
             [components |-> Append(tr.components, component),
              component_idxs |->
                MapInsert(tr.component_idxs, component.tid, idx)],
           old |-> None]

\* World::spawn: a builder with an empty tracker
NewBuilder ==
  /\ Idle
  /\ ~builder.open \/ builder.built # None
  /\ builder' = [NoBuilder EXCEPT !.open = TRUE]
  /\ UNCHANGED <<allocator, assocs, components, resources, lazy, pending,
                 stack, access, guards, panic, last, issued, declared,
                 lazy_entities, debug_assertions, registration, sweep>>

\* EntityBuilder::insert, and with, which drops what insert returns
BuilderInsert(tid, val) ==
  /\ Idle
  /\ builder.open
  /\ builder.built = None
  /\ Len(builder.inserts) < MaxInserts
  /\ LET got == TrackerInsertRaw(builder.tracker, Comp(tid, val))
     IN builder' = [builder EXCEPT !.tracker = got.tracker,
                                   !.inserts = Append(@, Comp(tid, val)),
                                   !.returned = got.old]
  /\ UNCHANGED <<allocator, assocs, components, resources, lazy, pending,
                 stack, access, guards, panic, last, issued, declared,
                 lazy_entities, debug_assertions, registration, sweep>>

\* EntityBuilder::build, up to EntityAssoc::new of the tracker's components
BuilderBuild ==
  /\ Idle
  /\ builder.open
  /\ builder.built = None
  /\ builder' = [builder EXCEPT
                   !.built = Some([assoc |-> EntityAssocNew(
                                      TidsOf(builder.tracker.components)),
                                   comps |-> builder.tracker.components])]
  /\ UNCHANGED <<allocator, assocs, components, resources, lazy, pending,
                 stack, access, guards, panic, last, issued, declared,
                 lazy_entities, debug_assertions, registration, sweep>>

\* ----------------------------------------------------------- the program
\* the builders the callers use: the with/insert calls of each
Withs == {<<>>, <<"A">>, <<"B", "A">>, <<"A", "B", "C">>, <<"C", "B", "C">>}

\* the caller's calls on the World
WorldStep ==
  \/ \E c \in CompTypes : RegisterComponent(c)
  \/ \E ws \in Withs : Spawn(ws)
  \/ \E e \in issued : Despawn(e)
  \/ WorldLazySpawn
  \/ \E b \in pending, ws \in Withs : WorldLazyBuild(b, ws)
  \/ \E b \in pending : DropBuilder(b)
  \/ \E e \in issued : WorldLazyDespawn(e)
  \/ Finalize
  \/ \E e \in issued, m \in MsgTypes : Dispatch(e, m)
  \/ \E t \in ResTypes, v \in ResVals : InsertResource(t, v)
  \/ \E t \in ResTypes : RemoveResource(t)
  \/ \E t \in ResTypes : GetResource(t)

\* the steps of dispatch_even_innerer itself
EngineStep ==
  \/ Walk
  \/ HandlerReturn
  \/ Drain
  \/ Return

\* what a handler does with its ListenerWorldAccess
HandlerStep ==
  \/ \E e \in issued, m \in MsgTypes : QueueDispatch(e, m)
  \/ \E e \in issued, m \in MsgTypes : NestedDispatch(e, m)
  \/ \E b \in BOOLEAN : SetCancellation(b)
  \/ ListenerLazySpawn
  \/ \E b \in pending, ws \in Withs : ListenerLazyBuild(b, ws)
  \/ \E e \in issued : ListenerLazyDespawn(e)

\* queries and resource accesses, by the caller or by a handler
GuardStep ==
  \/ \E e \in issued, c \in CompTypes, mode \in {"Read", "Write"} :
       Query(e, c, mode)
  \/ \E t \in ResTypes, mode \in {"Read", "Write"} : AccessResource(t, mode)
  \/ \E k \in 1..Len(guards) : DropGuard(k)

Next == WorldStep \/ EngineStep \/ HandlerStep \/ GuardStep

Spec == Init /\ [][Next]_vars

\* a release build's World after register_component of every component type
InitRegistered ==
  /\ allocator = with_capacity(DEFAULT_CAPACITY)
  /\ assocs = <<>>
  /\ components = CompTypes
  /\ resources = ResourceMapNew
  /\ lazy = <<>>
  /\ pending = {}
  /\ stack = <<>>
  /\ access = NoAccess
  /\ guards = <<>>
  /\ panic = NoPanic
  /\ last = NoLast
  /\ issued = {}
  /\ declared = <<>>
  /\ debug_assertions = FALSE
  /\ sweep = NoSweep
  /\ vtables = Registered(components)
  /\ registerer = NoRegisterer
  /\ COMPONENT_REGISTRATORS = <<>>
  /\ COMPONENT_VTABLES = None
  /\ builder = NoBuilder
  /\ lazy_entities = NoLazyEntities

\* programs that build entities and send them messages whose handlers
\* queue, dispatch and cancel
NextDispatch ==
  \/ \E ws \in Withs : Spawn(ws)
  \/ WorldLazySpawn
  \/ \E b \in pending, ws \in Withs : WorldLazyBuild(b, ws)
  \/ Finalize
  \/ \E e \in issued, m \in MsgTypes : Dispatch(e, m)
  \/ EngineStep
  \/ \E e \in issued, m \in MsgTypes : QueueDispatch(e, m)
  \/ \E e \in issued, m \in MsgTypes : NestedDispatch(e, m)
  \/ \E b \in BOOLEAN : SetCancellation(b)

SpecDispatch == InitRegistered /\ [][NextDispatch]_vars

\* programs that query components and take resources, from the caller and
\* from handlers, around and inside dispatches, nested and queued
NextLocks ==
  \/ Spawn(<<"B", "A">>)
  \/ \E e \in issued : Despawn(e)
  \/ ~contains_resource("R") /\ InsertResource("R", 1)
  \/ contains_resource("R") /\ RemoveResource("R")
  \/ \E e \in issued, m \in MsgTypes : Dispatch(e, m)
  \/ EngineStep
  \/ \E e \in issued : QueueDispatch(e, "M1")
  \/ \E e \in issued, m \in MsgTypes : NestedDispatch(e, m)
  \/ \E e \in issued, c \in CompTypes, mode \in {"Read", "Write"} :
       Query(e, c, mode)
  \/ \E mode \in {"Read", "Write"} : AccessResource("R", mode)
  \/ \E k \in 1..Len(guards) : DropGuard(k)

SpecLocks == InitRegistered /\ [][NextLocks]_vars

\* programs that spawn and despawn, at once and lazily, from the caller and
\* from handlers, and finalize; their handlers queue no dispatch, so the
\* drain loop has nothing to deliver
NextLazy ==
  \/ \E ws \in Withs : Spawn(ws)
  \/ \E e \in issued : Despawn(e)
  \/ WorldLazySpawn
  \/ \E b \in pending, ws \in Withs : WorldLazyBuild(b, ws)
  \/ \E b \in pending : DropBuilder(b)
  \/ \E e \in issued : WorldLazyDespawn(e)
  \/ Finalize
  \/ \E e \in issued, m \in MsgTypes : Dispatch(e, m)
  \/ Walk
  \/ HandlerReturn
  \/ Return
  \/ ListenerLazySpawn
  \/ \E b \in pending, ws \in Withs : ListenerLazyBuild(b, ws)
  \/ \E e \in issued : ListenerLazyDespawn(e)

SpecLazy == InitRegistered /\ [][NextLazy]_vars

\* World::new, register_component::<Rabbit> and
\* insert_resource(PopulationTracker(0)), in a release build
InitRabbits ==
  /\ allocator = with_capacity(DEFAULT_CAPACITY)
  /\ assocs = <<>>
  /\ components = {"Rabbit"}
  /\ resources = [t \in ResTypes \cup {"PopulationTracker"} |->
                    IF t = "PopulationTracker"
                    THEN [NoResource EXCEPT !.present = TRUE]
                    ELSE NoResource]
  /\ lazy = <<>>
  /\ pending = {}
  /\ stack = <<>>
  /\ access = NoAccess
  /\ guards = <<>>
  /\ panic = NoPanic
  /\ last = NoLast
  /\ issued = {}
  /\ declared = <<>>
  /\ debug_assertions = FALSE
  /\ sweep = NoSweep
  /\ vtables = Registered(components)
  /\ registerer = NoRegisterer
  /\ COMPONENT_REGISTRATORS = <<>>
  /\ COMPONENT_VTABLES = None
  /\ builder = NoBuilder
  /\ lazy_entities = NoLazyEntities

\* the spawn tests: one Rabbit is spawned, then dispatch_to_all of a
\* reproduce message and finalize take turns
NextRabbits ==
  \/ issued = {} /\ Spawn(<<"Rabbit">>)
  \/ /\ last.op \in {"spawn", "finalize"}
     /\ sweep.calls < MaxRounds
     /\ \E m \in {"Mitosis", "ReproduceAndDie"} : DispatchToAll(m)
  \/ \E e \in sweep.todo : SweepDispatch(e)
  \/ Walk
  \/ RabbitHandler
  \/ access.nops > 0 /\ HandlerReturn
  \/ Return
  \/ SweepReturn
  \/ last.op = "dispatch_to_all" /\ Finalize

SpecRabbits == InitRabbits /\ [][NextRabbits]_vars

\* programs whose callers and handlers enqueue every kind of deferred work:
\* lazy spawns, lazy despawns and queued dispatches
NextEnqueue ==
  \/ \E ws \in {<<"A">>, <<"B", "A">>} : Spawn(ws)
  \/ WorldLazySpawn
  \/ \E b \in pending : WorldLazyBuild(b, <<"A">>)
  \/ \E e \in issued : WorldLazyDespawn(e)
  \/ Finalize
  \/ \E e \in issued, m \in MsgTypes : Dispatch(e, m)
  \/ EngineStep
  \/ \E e \in issued : QueueDispatch(e, "M1")
  \/ ListenerLazySpawn
  \/ \E b \in pending : ListenerLazyBuild(b, <<"A">>)
  \/ \E e \in issued : ListenerLazyDespawn(e)

SpecEnqueue == InitRegistered /\ [][NextEnqueue]_vars

\* direct access through handles of every liveness: entities are spawned,
\* reserved, built, despawned, and every handle issued so far is used
NextAccess ==
  \/ Spawn(<<"A">>)
  \/ WorldLazySpawn
  \/ \E b \in pending : WorldLazyBuild(b, <<"A">>)
  \/ \E b \in pending : DropBuilder(b)
  \/ \E e \in issued : Despawn(e)
  \/ \E e \in issued : Dispatch(e, "M1")
  \/ EngineStep
  \/ \E e \in issued : QueueDispatch(e, "M1")
  \/ \E e \in issued : NestedDispatch(e, "M1")
  \/ \E e \in issued : Query(e, "A", "Read")
  \/ \E e \in issued : LenOf(e)
  \/ \E e \in issued : LivenessOf(e)
  \/ \E k \in 1..MaxGuards : DropGuard(k)

SpecAccess == InitRegistered /\ [][NextAccess]_vars

\* dispatches nested in handlers beside guards of queries, with failures
\* caught by the caller, who goes on using the world
NextReentry ==
  \/ Spawn(<<"B", "A">>)
  \/ \E e \in issued, m \in MsgTypes : Dispatch(e, m)
  \/ Walk
  \/ HandlerReturn
  \/ Return
  \/ \E e \in issued, m \in MsgTypes : NestedDispatch(e, m)
  \/ \E e \in issued, c \in {"A", "B"}, mode \in {"Read", "Write"} :
       Query(e, c, mode)
  \/ \E k \in 1..Len(guards) : DropGuard(k)
  \/ CatchUnwind

SpecReentry == InitRegistered /\ [][NextReentry]_vars

\* tuple queries that stop at a missing component after taking a guard
ReleaseShapes ==
  {Mut("A"), Tup(<<Ref("A"), Ref("C")>>), Tup(<<Mut("B"), Ref("C")>>),
   Tup(<<Ref("B"), Mut("A")>>)}

\* dispatches to one entity and to all, with handlers that dispatch and query,
\* between queries of the caller
NextRelease ==
  \/ Spawn(<<"B", "A">>)
  \/ \E e \in issued, m \in MsgTypes : Dispatch(e, m)
  \/ /\ sweep.calls < MaxRounds
     /\ \E m \in MsgTypes : DispatchToAll(m)
  \/ \E e \in sweep.todo : SweepDispatch(e)
  \/ SweepReturn
  \/ Walk
  \/ HandlerReturn
  \/ Return
  \/ \E e \in issued, m \in MsgTypes : NestedDispatch(e, m)
  \/ \E e \in issued, q \in ReleaseShapes : QueryShape(e, q)
  \/ \E k \in 1..Len(guards) : DropGuard(k)

SpecRelease == InitRegistered /\ [][NextRelease]_vars

\* the storage under immediate and queued spawns and despawns of every
\* handle issued, by a caller who catches failures and goes on
NextStorage ==
  \/ Spawn(<<"A">>)
  \/ WorldLazySpawn
  \/ \E b \in pending : WorldLazyBuild(b, <<"A">>)
  \/ \E b \in pending : DropBuilder(b)
  \/ \E e \in issued : Despawn(e)
  \/ \E e \in issued : WorldLazyDespawn(e)
  \/ Finalize
  \/ \E e \in issued : LivenessOf(e)
  \/ CatchUnwind

SpecStorage == InitRegistered /\ [][NextStorage]_vars

\* the counter-based world: entities are spawned, then handlers reserve,
\* build and despawn lazily in any order, and finalize applies the queue
NextCounters ==
  \/ WorldSpawnEmpty
  \/ WorldAccessLazySpawn
  \/ \E b \in pending : LazyEntityBuilderBuild(b)
  \/ \E e \in issued : WorldAccessLazyDespawn(e)
  \/ WorldFinalize

SpecCounters == Init /\ [][NextCounters]_vars

\* the message tests: World::new and register_component::<YakShaver>, in a
\* build with or without overflow checks
InitShavers ==
  /\ allocator = with_capacity(DEFAULT_CAPACITY)
  /\ assocs = <<>>
  /\ components = {"YakShaver", "YakShaverNoDefer"}
  /\ resources = ResourceMapNew
  /\ lazy = <<>>
  /\ pending = {}
  /\ stack = <<>>
  /\ access = NoAccess
  /\ guards = <<>>
  /\ panic = NoPanic
  /\ last = NoLast
  /\ issued = {}
  /\ declared = <<>>
  /\ debug_assertions \in BOOLEAN
  /\ sweep = NoSweep
  /\ vtables = Registered(components)
  /\ registerer = NoRegisterer
  /\ COMPONENT_REGISTRATORS = <<>>
  /\ COMPONENT_VTABLES = None
  /\ builder = NoBuilder
  /\ lazy_entities = NoLazyEntities

\* shavers are spawned, and each is sent one MsgShaveYak
NextShavers ==
  \/ \E c \in {"YakShaver", "YakShaverNoDefer"} : Spawn(<<c>>)
  \/ \E e \in issued, n \in 0..MaxShaves : ShaveYak(e, n)
  \/ Walk
  \/ YakShaverHandler
  \/ Drain
  \/ Return

\* a dispatch that has begun runs on: the caller's thread executes it
SpecShavers ==
  /\ InitShavers
  /\ [][NextShavers]_vars
  /\ WF_vars(Walk)
  /\ WF_vars(YakShaverHandler)
  /\ WF_vars(Drain)
  /\ WF_vars(Return)

\* programs that insert, take, remove and replace resources, from the
\* caller and from the handler of a dispatch, and whose user code may panic
\* and be caught holding guards
NextResources ==
  \/ issued = {} /\ Spawn(<<"A">>)
  \/ \E t \in ResTypes, v \in ResVals : InsertResource(t, v)
  \/ \E t \in ResTypes : RemoveResource(t)
  \/ \E t \in ResTypes : GetResource(t)
  \/ \E e \in issued : Dispatch(e, "M1")
  \/ Walk
  \/ HandlerReturn
  \/ Return
  \/ \E t \in ResTypes, mode \in {"Read", "Write"} : AccessResource(t, mode)
  \/ \E k \in 1..Len(guards) : DropGuard(k)
  \/ UserPanic
  \/ CatchUnwind

SpecResources == InitRegistered /\ [][NextResources]_vars

\* programs that hold guards on several components and resources at once:
\* the caller and the handlers query and take resources around and inside
\* dispatches
NextItems ==
  \/ Spawn(<<"B", "A">>)
  \/ \E t \in ResTypes : ~contains_resource(t) /\ InsertResource(t, 1)
  \/ \E e \in issued : Dispatch(e, "M1")
  \/ Walk
  \/ HandlerReturn
  \/ Return
  \/ \E e \in issued : NestedDispatch(e, "M1")
  \/ \E e \in issued, c \in CompTypes, mode \in {"Read", "Write"} :
       Query(e, c, mode)
  \/ \E t \in ResTypes, mode \in {"Read", "Write"} : AccessResource(t, mode)
  \/ \E k \in 1..Len(guards) : DropGuard(k)

SpecItems == InitRegistered /\ [][NextItems]_vars

\* a new World in a program that links up to MaxRegistrators registrators
InitStatics ==
  /\ allocator = with_capacity(DEFAULT_CAPACITY)
  /\ assocs = <<>>
  /\ components = {}
  /\ resources = ResourceMapNew
  /\ lazy = <<>>
  /\ pending = {}
  /\ stack = <<>>
  /\ access = NoAccess
  /\ guards = <<>>
  /\ panic = NoPanic
  /\ last = NoLast
  /\ issued = {}
  /\ declared = <<>>
  /\ debug_assertions = FALSE
  /\ sweep = NoSweep
  /\ vtables = Registered({})
  /\ registerer = NoRegisterer
  /\ COMPONENT_REGISTRATORS \in
       UNION {[1..n -> StaticTypes] : n \in 0..MaxRegistrators}
  /\ COMPONENT_VTABLES = None
  /\ builder = NoBuilder
  /\ lazy_entities = NoLazyEntities

\* programs that register component types with the world and look types up
\* in the static registry
NextStatics ==
  \/ \E c \in CompTypes : RegisterComponent(c)
  \/ \E tid \in StaticTypes : ByTid(tid)
  \/ \E name \in {"A", "B"} : ByFriendlyName(name)

SpecStatics == InitStatics /\ [][NextStatics]_vars

\* programs that register component types whose Component::register makes
\* any calls on its ComponentRegisterer
NextRegister ==
  \/ \E c \in {"A", "B"} : BeginRegister(c)
  \/ \E m \in MsgTypes, kind \in {"Read", "Write"} : DeclareHandler(m, kind)
  \/ RegisterCreateCallback
  \/ RegisterRemoveCallback
  \/ SetFriendlyName("a")
  \/ EndRegister

\* a release build's World before any registration
InitUnregistered == Init /\ debug_assertions = FALSE

SpecRegister == InitUnregistered /\ [][NextRegister]_vars

\* programs, in debug and in release builds, that build entities at once
\* and lazily from component types they may not have registered
NextPopulate ==
  \/ \E c \in {"A", "B"} : RegisterComponent(c)
  \/ \E ws \in {<<"A">>, <<"B", "A">>} : Spawn(ws)
  \/ \E e \in issued : Despawn(e)
  \/ WorldLazySpawn
  \/ \E b \in pending, ws \in {<<"A">>, <<"B", "A">>} : WorldLazyBuild(b, ws)
  \/ Finalize

SpecPopulate == Init /\ [][NextPopulate]_vars

\* the callback tests: World::new, register_component of Rabbit, Widget and
\* NotRabbit, insert_resource of PopulationTracker(0) and of an empty
\* ResWidgetTracker
InitCallbacks ==
  /\ allocator = with_capacity(DEFAULT_CAPACITY)
  /\ assocs = <<>>
  /\ components = {"Rabbit", "Widget", "NotRabbit"}
  /\ resources = [t \in {"PopulationTracker", "ResWidgetTracker"} |->
                    [NoResource EXCEPT
                       !.present = TRUE,
                       !.val = IF t = "ResWidgetTracker" THEN {} ELSE 0]]
  /\ lazy = <<>>
  /\ pending = {}
  /\ stack = <<>>
  /\ access = NoAccess
  /\ guards = <<>>
  /\ panic = NoPanic
  /\ last = NoLast
  /\ issued = {}
  /\ declared = <<>>
  /\ debug_assertions \in BOOLEAN
  /\ sweep = NoSweep
  /\ vtables = Registered(components)
  /\ registerer = NoRegisterer
  /\ COMPONENT_REGISTRATORS = <<>>
  /\ COMPONENT_VTABLES = None
  /\ builder = NoBuilder
  /\ lazy_entities = NoLazyEntities

\* the component lists of the entities of the callback tests
Flocks ==
  {<<"Rabbit">>, <<"NotRabbit">>, <<"Widget", "NotRabbit">>,
   <<"Rabbit", "Widget">>, <<"Widget", "Rabbit", "Widget">>}

\* callers that spawn at once or lazily, despawn lazily, and finalize
NextTracked ==
  \/ \E ws \in Flocks : Spawn(ws)
  \/ WorldLazySpawn
  \/ \E b \in pending, ws \in Flocks : WorldLazyBuild(b, ws)
  \/ \E e \in issued : WorldLazyDespawn(e)
  \/ Finalize

SpecTracked == InitCallbacks /\ [][NextTracked]_vars

\* the same callers, who also despawn at once
NextCallbacks ==
  \/ \E ws \in Flocks : Spawn(ws)
  \/ \E e \in issued : Despawn(e)
  \/ WorldLazySpawn
  \/ \E b \in pending, ws \in Flocks : WorldLazyBuild(b, ws)
  \/ \E e \in issued : WorldLazyDespawn(e)
  \/ Finalize

SpecCallbacks == InitCallbacks /\ [][NextCallbacks]_vars

\* a caller who fills builders and builds them
NextBuilder ==
  \/ NewBuilder
  \/ \E tid \in CompTypes, val \in CompVals : BuilderInsert(tid, val)
  \/ BuilderBuild

SpecBuilder == InitUnregistered /\ [][NextBuilder]_vars

\* the queries of the callers: on an entity with a B and an A, for components
\* it has and for C, which it has not
Shapes ==
  {Ref("A"), Mut("A"), Ref("C"), Mut("C"),
   Opt(Ref("C")), Opt(Mut("A")),
   Tup(<<Ref("B"), Mut("A")>>), Tup(<<Ref("A"), Ref("A")>>),
   Tup(<<Ref("A"), Ref("C")>>), Tup(<<Opt(Ref("C")), Mut("B")>>),
   Tup(<<Mut("A"), Mut("A")>>), Tup(<<Mut("A"), Ref("A")>>),
   Tup(<<Ref("C"), Mut("A"), Mut("A")>>),
   Tup(<<Mut("A"), Mut("A"), Ref("C")>>),
   Opt(Tup(<<Ref("A"), Mut("A")>>)),
   Tup(<<Tup(<<Ref("B"), Ref("C")>>), Ref("A")>>)}

\* callers who query entities in every shape, drop the responses, and
\* catch the panics of their queries
NextQueries ==
  \/ Spawn(<<"B", "A">>)
  \/ \E e \in issued, q \in Shapes : QueryShape(e, q)
  \/ \E k \in 1..Len(guards) : DropGuard(k)
  \/ CatchUnwind

SpecQueries == InitRegistered /\ [][NextQueries]_vars

\* ------------------------------------------------- properties of dispatch
Positions(n) == [i \in 1..n |-> i]

\* the positions, in stored order, of the components of e that have a
\* handler for the message type
Handlers(e, mtype) ==
  SelectSeq(Positions(Len(assocs[e])),
            LAMBDA i : MsgTable(assocs[e][i].tid, mtype) # "None")

\* the component types at the given positions of e's collection
TypesAt(e, ps) == [k \in 1..Len(ps) |-> assocs[e][ps[k]].tid]

IsPrefix(s, t) == Len(s) <= Len(t) /\ SubSeq(t, 1, Len(s)) = s

NoDup(s) == \A i, j \in 1..Len(s) : s[i] = s[j] => i = j

Frames == {stack[k] : k \in 1..Len(stack)}

\* C1: an entity built with the distinct components c1..cn, in that order,
\* that all handle the message: while no handler has cancelled, the handlers
\* invoked so far are a prefix of c1..cn, and when the walk is over they are
\* exactly c1, ..., cn, once each and in that order.
C1_DispatchOrder ==
  \A f \in Frames :
    LET d == declared[f.target]
    IN (/\ NoDup(d)
        /\ \A i \in 1..Len(d) : MsgTable(d[i], f.msg.type) # "None"
        /\ access.cancel_calls = 0)
       => /\ IsPrefix(TypesAt(f.target, f.ran), d)
          /\ f.phase = "drain" => TypesAt(f.target, f.ran) = d

\* a walk over an entity built lazily with A, B, C has invoked all three
C1_Witness ==
  \E f \in Frames :
    /\ declared[f.target] = <<"A", "B", "C">>
    /\ f.phase = "drain"
    /\ f.msg.type = "M1"
    /\ access.cancel_calls = 0
    /\ TypesAt(f.target, f.ran) = <<"A", "B", "C">>

\* C2 as stated: dispatch returns the message threaded through the handlers
\* of all the components of the target that handle its type.
C2_ReturnsAllHandlers ==
  last.op = "dispatch" =>
    last.msg.val = TypesAt(last.target, Handlers(last.target, last.msg.type))

\* C2, amended: dispatch returns the message threaded, in insertion order,
\* through the handlers of the target's components that handle its type, up
\* to and including the first one that returns with the cancellation flag
\* set (all of them if none does); a type that nothing handles comes back
\* unchanged; what the queued follow-up dispatches return is not in it.
C2_ReturnsThreaded ==
  last.op = "dispatch" =>
    LET hs == Handlers(last.target, last.msg.type)
    IN /\ last.msg.val = TypesAt(last.target, last.ran)
       /\ IsPrefix(last.ran, hs)
       /\ last.cancelled_at = 0 => last.ran = hs
       /\ last.cancelled_at # 0 => last.ran[Len(last.ran)] = last.cancelled_at
       /\ hs = <<>> => last.msg.val = <<>>

\* a dispatch that two handlers saw has returned, cut short by a cancel
C2_Witness ==
  /\ last.op = "dispatch"
  /\ Len(last.msg.val) = 2
  /\ last.cancelled_at = 2
  /\ Len(Handlers(last.target, last.msg.type)) = 3

\* C3: once a handler has returned with the dispatch cancelled, the walk is
\* over: the handlers before it have run, it is the last one invoked, and
\* no later component is ever given the message.
C3_CancelStopsWalk ==
  \A f \in Frames :
    f.cancelled_at # 0
    => /\ f.phase = "drain"
       /\ f.ran = SelectSeq(Handlers(f.target, f.msg.type),
                            LAMBDA i : i <= f.idx)
       /\ f.ran[Len(f.ran)] = f.idx

\* B of [A, B, C] has cancelled: A and B have run, C has not
C3_Witness ==
  \E f \in Frames :
    /\ TypesAt(f.target, Handlers(f.target, f.msg.type)) = <<"A", "B", "C">>
    /\ f.cancelled_at = 2
    /\ f.own_cancel
    /\ f.ran = <<1, 2>>
    /\ f.phase = "drain"

\* C4 as stated: cancellation is per dispatch, so a walk none of whose own
\* handlers cancelled goes through all the handling components of its
\* target, whatever was cancelled in the dispatch that queued or issued it
\* or in a dispatch it issued itself.
C4_CancelIsPerDispatch ==
  \A f \in Frames :
    (f.phase = "drain" /\ ~f.own_cancel)
    => f.ran = Handlers(f.target, f.msg.type)

\* C5 as stated: a queued message is delivered only when the walk of the
\* dispatch that queued it is over, never while a handler of that walk is
\* still running.
C5_QueuedAfterWalk ==
  \A f, g \in Frames :
    (f.via = "queued" /\ g.id = f.queued_by) => g.phase = "drain"

\* two frames are running handlers on the same component
Overlap(f, g) ==
  /\ f.id < g.id
  /\ f.phase = "handler"
  /\ g.phase = "handler"
  /\ f.target = g.target
  /\ f.idx = g.idx

HandlerKind(f) == MsgTable(assocs[f.target][f.idx].tid, f.msg.type)

\* C6 as stated: a handler whose component would be locked a second time by
\* a dispatch to its own entity fails: no component is ever held by two
\* handler invocations at once.
C6_NoSecondLock == \A f, g \in Frames : ~Overlap(f, g)

\* the walk of the top frame has reached a handling component that a
\* running handler holds exclusively, or that is held and wants exclusivity
Reentrant ==
  /\ panic = NoPanic
  /\ stack # <<>>
  /\ Top.phase = "walk"
  /\ LET comps == assocs[Top.target]
         i == NextStop(comps, Top.idx, Top.msg.type)
     IN /\ i <= Len(comps)
        /\ comps[i].tid \in components
        /\ \E g \in Frames :
             /\ g.phase = "handler"
             /\ g.target = Top.target
             /\ g.idx = i
             /\ "Write" \in {HandlerKind(g), MsgTable(comps[i].tid, Top.msg.type)}

\* C6, amended: a handler whose component would be locked a second time by
\* a dispatch to its own entity fails with the loop error naming the entity
\* and the component type when one of the two locks is exclusive (a write
\* handler); two handler invocations share a component only if both are
\* read handlers.
C6_ReentrancyFails ==
  [][/\ \A f, g \in Frames' :
          (Overlap(f, g))' => (HandlerKind(f) = "Read" /\ HandlerKind(g) = "Read")'
     /\ Reentrant =>
          LET i == NextStop(assocs[Top.target], Top.idx, Top.msg.type)
          IN panic' = Panicked("loop", Top.target, assocs[Top.target][i].tid)]_vars

\* the write handler of A dispatched to its own entity and the dispatch
\* failed with the loop error on A
C6_Witness ==
  /\ panic.kind = "loop"
  /\ panic.comp = "A"
  /\ Len(stack) = 2
  /\ stack[1].target = panic.entity
  /\ stack[2].target = panic.entity
  /\ stack[2].via = "nested"
  /\ stack[1].phase = "handler"
  /\ stack[1].msg.type = stack[2].msg.type

\* ---------------------------------------------------- properties of locks
\* the handler invocations and the guards of user code that hold the
\* component at position i of e in the given mode
CompHolders(e, i, mode) ==
  Cardinality({f \in Frames : /\ f.phase = "handler"
                              /\ f.target = e
                              /\ f.idx = i
                              /\ HandlerKind(f) = mode})
  + Cardinality({k \in 1..Len(guards) : /\ guards[k].kind = "comp"
                                        /\ guards[k].entity = e
                                        /\ guards[k].pos = i
                                        /\ guards[k].mode = mode})

ResHolders(t, mode) ==
  Cardinality({k \in 1..Len(guards) : /\ guards[k].kind = "res"
                                      /\ guards[k].res = t
                                      /\ guards[k].mode = mode})

\* a lock held by the given numbers of readers and writers: no guard, or
\* shared guards only, or one exclusive guard
Disciplined(entry, readers, writers) ==
  /\ entry.r = readers
  /\ entry.w = (writers = 1)
  /\ writers <= 1
  /\ writers = 1 => readers = 0

\* C7: every component and every resource has no guard, or shared guards
\* only, or exactly one exclusive guard and nothing else, whatever the
\* nesting of dispatches, queries and resource accesses.
C7_GuardsExclusive ==
  /\ \A e \in DOMAIN assocs : \A i \in 1..Len(assocs[e]) :
       Disciplined(assocs[e][i], CompHolders(e, i, "Read"),
                   CompHolders(e, i, "Write"))
  /\ \A t \in ResTypes :
       Disciplined(resources[t], ResHolders(t, "Read"), ResHolders(t, "Write"))

\* a component shared by a read handler and a query while user code holds
\* the exclusive guard of a resource
C7_Witness ==
  /\ \E e \in DOMAIN assocs : \E i \in 1..Len(assocs[e]) :
       /\ assocs[e][i].r = 2
       /\ \E f \in Frames : f.phase = "handler" /\ f.target = e /\ f.idx = i
  /\ \E t \in ResTypes : resources[t].w

\* --------------------------------------------- properties of lazy updates
\* the distinct component types of a builder's with/insert calls, each at
\* the place of its first insertion
RECURSIVE FirstOccurrences(_)
FirstOccurrences(withs) ==
  IF withs = <<>> THEN <<>>
  ELSE LET init == FirstOccurrences(SubSeq(withs, 1, Len(withs) - 1))
           c == withs[Len(withs)]
       IN IF c \in Range(init) THEN init ELSE Append(init, c)

\* a finalize has just returned without a failure
Finalized == last.op = "finalize"

\* the updates that finalize applied, by position
Spawns == {k \in 1..Len(last.applied) : last.applied[k].kind = "FinishEntity"}
Despawns == {k \in 1..Len(last.applied) : last.applied[k].kind = "DespawnEntity"}

\* a despawn of the same handle was queued after the update at position k
DespawnedAfter(k) ==
  \E j \in Despawns : j > k /\ last.applied[j].entity = last.applied[k].entity

\* the entity has exactly the components declared on its builder, in order
AsDeclared(e) ==
  /\ Liveness(e) = "Alive"
  /\ Tids(assocs[e]) = FirstOccurrences(declared[e])

\* a reserved handle is PartiallySpawned until finalize; the one exception
\* is the handle on which a World::despawn has just failed
StillReserved(e) ==
  \/ Liveness(e) = "PartiallySpawned"
  \/ panic = Panicked("not_finished", e, "")

ReservedUntilFinalize ==
  /\ \A b \in pending : StillReserved(b.entity)
  /\ \A k \in 1..Len(lazy) :
       lazy[k].kind = "FinishEntity" => StillReserved(lazy[k].entity)

NewAlive == {e \in DOMAIN assocs : last.before[e] # "Alive"}

\* C9 as stated: N queued spawns and one finalize give exactly N new alive
\* entities, whatever else was queued.
C9_AllSpawnsAlive ==
  Finalized => Cardinality(NewAlive) = Cardinality(Spawns)

\* C9, amended: N queued spawns and one finalize give exactly one new alive
\* entity, with the declared components, for each of the N spawns that has
\* no despawn of its own handle queued after it, whatever else was queued.
C9_SpawnsNotDespawnedAlive ==
  Finalized =>
    LET kept == {k \in Spawns : ~DespawnedAfter(k)}
    IN /\ NewAlive = {last.applied[k].entity : k \in kept}
       /\ Cardinality(NewAlive) = Cardinality(kept)
       /\ \A e \in NewAlive : AsDeclared(e)

\* two spawns queued around a despawn: two new alive entities
C9_Witness ==
  /\ Finalized
  /\ Cardinality(Spawns) = 2
  /\ Despawns # {}
  /\ Cardinality(NewAlive) = 2

Enqueues ==
  \/ Len(lazy') > Len(lazy)
  \/ Len(access'.queued) > Len(access.queued)
  \/ Cardinality(pending') > Cardinality(pending)

\* C11: a step that enqueues (lazy_spawn, build of a lazy builder,
\* lazy_despawn, queue_dispatch) leaves the populated entities as they were:
\* the same set of entities (len and iteration), the same liveness of every
\* populated entity, the same component collections; and no step at all
\* changes the components of a collection that a running dispatch walks.
C11_EnqueueChangesNothing ==
  [][/\ Enqueues =>
          /\ assocs' = assocs
          /\ \A e \in DOMAIN assocs :
               liveness(allocator', assocs', e) = Liveness(e)
     /\ \A k \in 1..Len(stack) :
          /\ stack[k].target \in DOMAIN assocs'
          /\ Tids(assocs'[stack[k].target]) = Tids(assocs[stack[k].target])]_vars

\* a handler is running on an alive entity after it queued its own despawn
\* and a dispatch, with a lazy spawn waiting as well
C11_Witness ==
  /\ stack # <<>>
  /\ Top.phase = "handler"
  /\ Liveness(Top.target) = "Alive"
  /\ \E k \in 1..Len(lazy) : lazy[k] = DespawnEntity(Top.target)
  /\ \E k \in 1..Len(lazy) : lazy[k].kind = "FinishEntity"
  /\ access.queued # <<>>

\* what applying the updates one at a time, first enqueued first, does to
\* the liveness of each handle: a spawn completion populates its handle, a
\* despawn kills an alive entity and does nothing to any other; kills lists
\* the entities killed, in the order of their despawns
RECURSIVE Replay(_, _)
Replay(st, updates) ==
  IF updates = <<>> THEN st
  ELSE LET u == Head(updates)
           e == u.entity
       IN IF u.kind = "FinishEntity"
          THEN Replay([st EXCEPT !.live[e] = "Alive"], Tail(updates))
          ELSE IF st.live[e] = "Alive"
          THEN Replay([live |-> [st.live EXCEPT ![e] = "Dead"],
                       kills |-> Append(st.kills, e)], Tail(updates))
          ELSE Replay(st, Tail(updates))

\* C12: a finalize that returns has applied the queued updates one by one
\* in the order of their enqueueing, each exactly once: every handle has the
\* liveness that this order gives it (a completion queued before a despawn
\* of the same handle leaves it Dead), the allocator has freed exactly the
\* killed entities, one generation each, and its free list links their
\* slots in the order of their despawns.
C12_FinalizeIsFifo ==
  [][Finalized' =>
       LET fifo == Replay([live |-> [e \in issued |-> Liveness(e)],
                           kills |-> <<>>], lazy)
           n == Len(fifo.kills)
       IN /\ \A e \in issued :
               liveness(allocator', assocs', e) = fifo.live[e]
          /\ allocator'.generation = allocator.generation + n
          /\ allocator'.len = allocator.len - n
          /\ n > 0 => allocator'.free_list_head = fifo.kills[n].index
          /\ \A j \in 1..n :
               allocator'.items[fifo.kills[j].index + 1].next_free =
                 IF j = 1 THEN allocator.free_list_head
                 ELSE fifo.kills[j - 1].index]_vars

\* a finalize applied a completion, the despawn of the same handle and the
\* despawn of another entity: both are dead
C12_Witness ==
  /\ Finalized
  /\ Len(last.applied) = 3
  /\ allocator.generation = 2
  /\ \E j, k \in 1..3 :
       /\ j < k
       /\ last.applied[j].kind = "FinishEntity"
       /\ last.applied[k] = DespawnEntity(last.applied[j].entity)
       /\ Liveness(last.applied[j].entity) = "Dead"

\* C13: when finalize returns the lazy-update queue is empty and nothing
\* that was on it is left undone: every handle whose completion was queued,
\* the first of the batch or a later one, is populated (or already dead
\* again), and every alive entity whose despawn was queued is dead.
C13_FinalizeDrainsQueue ==
  [][Finalized' =>
       /\ lazy' = <<>>
       /\ \A k \in 1..Len(lazy) :
            /\ lazy[k].kind = "FinishEntity" =>
                 liveness(allocator', assocs', lazy[k].entity)
                   \in {"Alive", "Dead"}
            /\ (lazy[k].kind = "DespawnEntity"
                /\ Liveness(lazy[k].entity) = "Alive") =>
                 liveness(allocator', assocs', lazy[k].entity) = "Dead"]_vars

\* a finalize has returned after three updates, the last one a completion
\* that is now alive
C13_Witness ==
  /\ Finalized
  /\ lazy = <<>>
  /\ Len(last.applied) = 3
  /\ last.applied[3].kind = "FinishEntity"
  /\ Liveness(last.applied[3].entity) = "Alive"

\* ---------------------------------------------- properties of the handles
\* C14: a handle that reports Dead reports Dead after every later step:
\* spawns, reservations, despawns and finalizes, also once its index has
\* been handed out again.
C14_DeadForever ==
  [][\A e \in issued :
       Liveness(e) = "Dead" => liveness(allocator', assocs', e) = "Dead"]_vars

\* a despawned handle is Dead while a new entity lives at its index
C14_Witness ==
  \E e, n \in issued :
    /\ e.index = n.index
    /\ e.generation < n.generation
    /\ Liveness(e) = "Dead"
    /\ Liveness(n) = "Alive"

\* C15: every allocation returns a handle that was never returned before,
\* of a generation strictly greater than that of every handle issued for
\* the same index; the generation grows by one with every free and is left
\* alone by an allocation.
C15_HandlesNeverRepeat ==
  [][/\ allocator'.len > allocator.len =>
          /\ allocator'.generation = allocator.generation
          /\ \E e \in issued' \ issued :
               \A o \in issued : o.index = e.index => e.generation > o.generation
     /\ allocator'.len < allocator.len =>
          allocator'.generation =
            allocator.generation + (allocator.len - allocator.len')]_vars

\* a lazy reservation got the index of a despawned entity, one generation on
C15_Witness ==
  \E e, n \in issued :
    /\ e.index = n.index
    /\ n.generation = e.generation + 1
    /\ \E b \in pending : b.entity = n

\* the number of despawns of e on the queue
QueuedDespawns(e) ==
  Cardinality({k \in 1..Len(lazy) : lazy[k] = DespawnEntity(e)})

\* e is populated when the first of its queued despawns is applied: it is
\* alive already, or its completion is queued before that despawn
PopulatedAtDespawn(e) ==
  \/ Liveness(e) = "Alive"
  \/ \E j, k \in 1..Len(lazy) :
       /\ j < k
       /\ lazy[j].kind = "FinishEntity"
       /\ lazy[j].entity = e
       /\ lazy[k] = DespawnEntity(e)

\* C17: a finalize whose queue holds two or more despawns of the same
\* entity does not fail; the first despawn removes the entity (Dead
\* afterwards), the later ones are ignored (its slot is freed once), and no
\* entity without a queued despawn of its own is removed.
C17_RepeatedDespawnHarmless ==
  [][(lazy # <<>> /\ lazy' = <<>>) =>
       \A e \in issued :
         QueuedDespawns(e) >= 2 =>
           /\ panic' = NoPanic
           /\ PopulatedAtDespawn(e) => liveness(allocator', assocs', e) = "Dead"
           /\ \A o \in issued :
                QueuedDespawns(o) = 0 =>
                  (liveness(allocator', assocs', o) = "Dead"
                     <=> Liveness(o) = "Dead")
           /\ allocator.len - allocator'.len =
                Cardinality({o \in issued :
                               /\ Liveness(o) # "Dead"
                               /\ liveness(allocator', assocs', o) = "Dead"})]_vars

\* an entity despawned twice in one finalize is dead and another entity,
\* spawned before it, is still alive
C17_Witness ==
  /\ Finalized
  /\ \E e, o \in issued :
       /\ Cardinality({k \in 1..Len(last.applied) :
                         last.applied[k] = DespawnEntity(e)}) = 2
       /\ last.before[e] = "Alive"
       /\ Liveness(e) = "Dead"
       /\ o # e
       /\ last.before[o] = "Alive"
       /\ Liveness(o) = "Alive"

\* --------------------------------------------- properties of populations
\* EntityStorage::len, as World::len reports it
len == Cardinality(DOMAIN assocs)

\* C16: one Rabbit whose handler lazily spawns one copy of itself, or two
\* copies while lazily despawning itself: nothing fails, and after k rounds
\* of dispatch_to_all and finalize the world has exactly 2^k entities, all
\* of them alive.
C16_PopulationDoubles ==
  /\ panic = NoPanic
  /\ Finalized =>
       /\ len = 2 ^ sweep.calls
       /\ Cardinality({e \in issued : Liveness(e) = "Alive"}) = 2 ^ sweep.calls

\* the second finalize has returned: four rabbits, the first one dead
C16_Witness ==
  /\ Finalized
  /\ sweep.calls = 2
  /\ len = 4
  /\ \E e \in issued : Liveness(e) = "Dead"

\* ----------------------------------------------- properties of resources
Modes == {"Read", "Write"}

\* C18: a read_resource or write_resource call returns a typed result and
\* never panics: write while a read or write guard on the resource is
\* outstanding returns Locked, read while a write guard is outstanding
\* returns Locked, read while only read guards are outstanding yields a
\* guard, and any access to a type without an instance returns NotFound.
C18_TypedResults ==
  [][\A t \in ResTypes, mode \in Modes :
       AccessResource(t, mode) =>
         LET readers == ResHolders(t, "Read")
             writers == ResHolders(t, "Write")
         IN /\ panic' = NoPanic
            /\ last'.result \in {"Ok", "NotFound", "Locked", "Poisoned"}
            /\ (mode = "Write" /\ readers + writers > 0)
                 => last'.result = "Locked"
            /\ (mode = "Read" /\ writers > 0) => last'.result = "Locked"
            /\ (mode = "Read" /\ writers = 0 /\ readers > 0)
                 => /\ last'.result = "Ok"
                    /\ guards' = Append(guards, ResGuard(Holder, t, "Read"))
            /\ ~contains_resource(t) => last'.result = "NotFound"
            /\ last'.result # "Ok" => guards' = guards]_vars

\* a handler's write_resource was refused as Locked while the caller holds
\* a read guard on the resource, and its read_resource of another type
\* would be refused as NotFound
C18_Witness ==
  /\ panic = NoPanic
  /\ stack # <<>>
  /\ \E t \in ResTypes :
       /\ last = [op |-> "resource", res |-> t, mode |-> "Write",
                  result |-> "Locked"]
       /\ \E k \in 1..Len(guards) : guards[k] = ResGuard(0, t, "Read")
       /\ \E u \in ResTypes \ {t} : ~contains_resource(u)

\* the original statement of C19: after a holder of a guard of either kind
\* on a resource has panicked holding it, every read_resource and
\* write_resource of that resource returns Poisoned and yields no guard
C19_PoisonedAfterAnyFailure ==
  [][\A t \in ResTypes, mode \in Modes :
       (AccessResource(t, mode) /\ resources[t].failed # {})
         => /\ last'.result = "Poisoned"
            /\ guards' = guards]_vars

\* C19: after a holder of a write guard on a resource has panicked holding
\* it, and until the instance is removed or replaced, every read_resource
\* and write_resource of that resource returns Poisoned and yields no guard,
\* and get_resource returns None; after a holder of a read guard alone has
\* panicked the resource is accessed as before.
C19_PoisonedAfterWriterFailure ==
  [][\A t \in ResTypes :
       /\ \A mode \in Modes :
            AccessResource(t, mode) =>
              /\ "Write" \in resources[t].failed
                   => /\ last'.result = "Poisoned"
                      /\ guards' = guards
                      /\ resources' = resources
              /\ resources[t].failed = {"Read"} => last'.result # "Poisoned"
       /\ (GetResource(t) /\ "Write" \in resources[t].failed)
            => last'.result = None]_vars

\* the caller's read_resource was refused as Poisoned after the handler
\* that held the write guard panicked, and the instance is still there
C19_Witness ==
  /\ panic = NoPanic
  /\ \E t \in ResTypes :
       /\ contains_resource(t)
       /\ "Write" \in resources[t].failed
       /\ last = [op |-> "resource", res |-> t, mode |-> "Read",
                  result |-> "Poisoned"]
       /\ guards = <<>>

\* C20: the resource map holds at most one instance per type: insert of v
\* makes v the instance of its type, leaves the other types alone and
\* returns the instance stored before, if any; contains changes only at an
\* insert or a remove; remove returns the current instance, and afterwards
\* read_resource and write_resource return NotFound.
C20_SingleInstance ==
  [][\A t \in ResTypes :
       /\ \A v \in ResVals :
            InsertResource(t, v) =>
              /\ panic' = NoPanic
              /\ contains_resource(t)'
              /\ resources'[t].val = v
              /\ \A u \in ResTypes \ {t} : resources'[u] = resources[u]
              /\ last'.op = "insert_resource"
              /\ last'.result = IF contains_resource(t)
                                THEN Some(resources[t].val) ELSE None
       /\ RemoveResource(t) =>
            /\ ~contains_resource(t)'
            /\ \A u \in ResTypes \ {t} : resources'[u] = resources[u]
            /\ last'.result = IF contains_resource(t)
                              THEN Some(resources[t].val) ELSE None
       /\ contains_resource(t)' # contains_resource(t)
            => \/ \E v \in ResVals : InsertResource(t, v)
               \/ RemoveResource(t)
       /\ \A mode \in Modes :
            (AccessResource(t, mode) /\ ~contains_resource(t))
              => last'.result = "NotFound"]_vars

\* ------------------------------------------------- properties of the locks
\* an access of the given mode is refused by these holders of the same lock
Conflict(readers, writers, mode) ==
  writers > 0 \/ (mode = "Write" /\ readers > 0)

\* C21: locks are per item: a query, a handler's lock or a resource access
\* fails only because of guards on the very component or resource it asks
\* for; whatever guards are held on other components, of the same entity or
\* not, and on other resource types, it succeeds.
C21_LocksPerItem ==
  [][
      /\ \A e \in issued, c \in CompTypes, mode \in Modes :
          (/\ Query(e, c, mode)
           /\ e \in DOMAIN assocs
           /\ \E i \in 1..Len(assocs[e]) :
                /\ assocs[e][i].tid = c
                /\ ~Conflict(CompHolders(e, i, "Read"),
                             CompHolders(e, i, "Write"), mode))
            => (/\ panic' = NoPanic
                /\ last' = [op |-> "query", result |-> "Some"])
      /\ \A t \in ResTypes, mode \in Modes :
          (/\ AccessResource(t, mode)
           /\ contains_resource(t)
           /\ ~Conflict(ResHolders(t, "Read"), ResHolders(t, "Write"), mode))
            => (last'.result = "Ok")
      /\ (Walk /\ panic'.kind = "loop") =>
           (\E i \in 1..Len(assocs[panic'.entity]) :
              /\ assocs[panic'.entity][i].tid = panic'.comp
              /\ Conflict(CompHolders(panic'.entity, i, "Read"),
                          CompHolders(panic'.entity, i, "Write"),
                          MsgTable(panic'.comp, Top.msg.type)))]_vars

\* while the caller holds the write guard of a resource and a handler runs
\* on one component of an entity, the handler's &mut query of the entity's
\* other component has succeeded
C21_Witness ==
  /\ panic = NoPanic
  /\ stack # <<>>
  /\ Top.phase = "handler"
  /\ last = [op |-> "query", result |-> "Some"]
  /\ Len(guards) = 2
  /\ guards[1].kind = "res" /\ guards[1].mode = "Write"
  /\ guards[2] = CompGuard(Top.id, Top.target, 3 - Top.idx, "Write")

\* -------------------------------------------- properties of registration
\* C22: registering a component type that is already registered is a hard
\* failure at once: register_component of a registered type panics and
\* leaves the world's registry alone, and building the static registry from
\* registrators that name a type twice panics.
C22_DuplicateRegistrationFails ==
  [][
      /\ \A c \in CompTypes :
           (RegisterComponent(c) /\ c \in components)
             => (/\ panic' = Panicked("already_registered", NoEntity, c)
                 /\ components' = components
                 /\ vtables' = vtables)
      /\ (/\ COMPONENT_VTABLES = None
          /\ COMPONENT_VTABLES' # None
          /\ \E i, j \in 1..Len(COMPONENT_REGISTRATORS) :
               i < j /\ COMPONENT_REGISTRATORS[i] = COMPONENT_REGISTRATORS[j])
           => (panic' # NoPanic)]_vars

\* C23: declaring a handler for a message type that the component type has
\* a handler for already, read or write, panics and changes nothing, so of
\* the handle calls that returned no two are for the same message type, and
\* the registerer and every vtable hold exactly the handlers declared.
C23_OneHandlerPerMessage ==
  [][
      /\ \A m \in MsgTypes, kind \in {"Read", "Write"} :
           (DeclareHandler(m, kind) /\ m \in DOMAIN registerer.handlers)
             => (/\ panic'.kind \in {"handle_read_twice", "handle_write_twice"}
                 /\ registerer' = registerer)
      /\ \A i, j \in 1..Len(registerer'.calls) :
           registerer'.calls[i].msg = registerer'.calls[j].msg => i = j
      /\ \A m \in MsgTypes :
           IF \E i \in 1..Len(registerer'.calls) :
                registerer'.calls[i].msg = m
           THEN /\ m \in DOMAIN registerer'.handlers
                /\ \E i \in 1..Len(registerer'.calls) :
                     registerer'.calls[i] =
                       [msg |-> m, kind |-> registerer'.handlers[m]]
           ELSE m \notin DOMAIN registerer'.handlers
      /\ EndRegister
           => (vtables'[registerer.tid].msg_table = registerer.handlers)]_vars

\* handle_write of a message type panicked on a registerer whose only
\* handler is a read handler
C23_Witness ==
  /\ panic.kind = "handle_write_twice"
  /\ panic.comp = registerer.tid
  /\ \E m \in MsgTypes :
       registerer.calls = <<[msg |-> m, kind |-> "Read"]>>

\* C24: in every reachable state every component of every populated entity
\* is of a registered type; a build or a finalize that would populate an
\* entity with a component of an unregistered type panics instead.
C24_HeldTypesRegistered ==
  \A e \in DOMAIN assocs : \A i \in 1..Len(assocs[e]) :
    assocs[e][i].tid \in components

\* ------------------------------------------------ properties of callbacks
\* the callbacks that an operation has invoked, in the order of the calls
CallsOf(l) == IF "calls" \in DOMAIN l THEN l.calls ELSE <<>>

\* the types of a component list that registered a callback of the kind
WithCallback(tids, kind) ==
  SelectSeq(tids, LAMBDA c : CallbackTable(c) \in {kind, "Both"})

\* the entities that the step removes from the world
Removed(e) ==
  Liveness(e) = "Alive" /\ liveness(allocator', assocs', e) = "Dead"

\* C25: whenever an entity is removed from the world, at once by
\* World::despawn or by a queued despawn applied at finalize, the remove
\* callback of each of its components whose type registered one is invoked
\* exactly once, and the entity passed to it is already Dead.
C25_RemoveCallbacksRun ==
  [][
      \A e \in issued :
        (Removed(e) /\ panic' = NoPanic) =>
          (\A i \in 1..Len(assocs[e]) :
             CallbackTable(assocs[e][i].tid) \in {"Remove", "Both"} =>
               (Cardinality({k \in 1..Len(CallsOf(last')) :
                               CallsOf(last')[k] =
                                 [kind |-> "remove",
                                  tid |-> assocs[e][i].tid,
                                  entity |-> e,
                                  liveness |-> "Dead"]}) = 1))
  ]_vars

\* the create callbacks due to the entity e built from the with/insert calls
\* ws: one per component type that registered one, in insertion order, each
\* seeing the entity Alive
CreateCalls(e, ws) ==
  LET sel == WithCallback(FirstOccurrences(ws), "Create")
  IN [i \in 1..Len(sel) |->
        [kind |-> "create", tid |-> sel[i], entity |-> e,
         liveness |-> "Alive"]]

\* the create callbacks due to a batch of updates, in the order of the batch
RECURSIVE CreateCallsOfAll(_)
CreateCallsOfAll(updates) ==
  IF updates = <<>> THEN <<>>
  ELSE (IF Head(updates).kind = "FinishEntity"
        THEN CreateCalls(Head(updates).entity,
                         declared[Head(updates).entity])
        ELSE <<>>) \o CreateCallsOfAll(Tail(updates))

\* C26: the create callback of a component type runs exactly once for every
\* component of that type on every spawned entity: within the immediate
\* build for an immediate spawn and within finalize for a lazy build, in
\* component insertion order, with the entity Alive; no other step runs a
\* create callback, and none runs for an entity that was already Alive.
C26_CreateCallbacksRun ==
  [][
      /\ \A ws \in Flocks :
           (Spawn(ws) /\ panic' = NoPanic) =>
             (CallsOf(last') = CreateCalls(last'.entity, ws))
      /\ (Finalize /\ panic' = NoPanic) =>
           (SelectSeq(CallsOf(last'), LAMBDA c : c.kind = "create")
              = CreateCallsOfAll(lazy))
      /\ \A k \in 1..Len(CallsOf(last')) :
           (CallsOf(last')[k].kind = "create") =>
             (/\ last'.op \in {"spawn", "finalize"}
              /\ Liveness(CallsOf(last')[k].entity) # "Alive")
  ]_vars

\* a finalize has run the create callbacks of a lazily built Widget and
\* Rabbit of one entity, in the order of their insertion
C26_Witness ==
  /\ last.op = "finalize"
  /\ \E k \in 1..(Len(last.calls) - 1) :
       /\ last.calls[k].kind = "create"
       /\ last.calls[k + 1].kind = "create"
       /\ last.calls[k].tid = "Widget"
       /\ last.calls[k + 1].tid = "Rabbit"
       /\ last.calls[k].entity = last.calls[k + 1].entity
       /\ last.calls[k].entity \in DOMAIN assocs

\* the alive entities that hold a component of type c
Holding(c) ==
  {e \in DOMAIN assocs :
     Liveness(e) = "Alive" /\ \E i \in 1..Len(assocs[e]) : assocs[e][i].tid = c}

\* C27: whatever the caller's immediate spawns, lazy spawns, lazy despawns
\* and finalizes, every finalize returns, and after it the counter that
\* Rabbit's create callback increments and its remove callback decrements
\* is the number of alive entities holding a Rabbit, and the set of Widget's
\* TrackEntitiesWithComponent holds exactly the alive entities holding a
\* Widget (its on_create and on_remove checks never fail).
C27_CounterIsPopulation ==
  [][
      Finalize =>
        (/\ panic' = NoPanic
         /\ resources'["PopulationTracker"].val =
              Cardinality({e \in DOMAIN assocs' :
                             /\ liveness(allocator', assocs', e) = "Alive"
                             /\ \E i \in 1..Len(assocs'[e]) :
                                  assocs'[e][i].tid = "Rabbit"})
         /\ resources'["ResWidgetTracker"].val =
              {e \in DOMAIN assocs' :
                 /\ liveness(allocator', assocs', e) = "Alive"
                 /\ \E i \in 1..Len(assocs'[e]) :
                      assocs'[e][i].tid = "Widget"})
  ]_vars

\* a finalize has run a create and a remove callback, and a Rabbit is left
C27_Witness ==
  /\ last.op = "finalize"
  /\ \E k \in 1..Len(last.calls) : last.calls[k].kind = "remove"
  /\ \E k \in 1..Len(last.calls) : last.calls[k].kind = "create"
  /\ resources["PopulationTracker"].val = 1
  /\ Holding("Rabbit") # {}

\* ---------------------------------------------- properties of the builder
\* the last value given for the type tid in a list of insert calls
RECURSIVE LastValue(_, _)
LastValue(inserts, tid) ==
  IF inserts[Len(inserts)].tid = tid THEN inserts[Len(inserts)].val
  ELSE LastValue(SubSeq(inserts, 1, Len(inserts) - 1), tid)

\* C28: an insert of a component whose type the builder already holds puts
\* the new value at the position of the old one, returns the old component
\* and leaves len() and the other components as they were; an insert of a
\* new type appends and returns None; the tracker never holds a type twice,
\* and the built collection holds each inserted type once, at the position
\* of its first insertion, with the value of its last insertion.
C28_InsertReplacesInPlace ==
  [][
      /\ \A tid \in CompTypes, val \in CompVals :
           BuilderInsert(tid, val) =>
             (IF \E i \in 1..Len(builder.tracker.components) :
                    builder.tracker.components[i].tid = tid
              THEN \E i \in 1..Len(builder.tracker.components) :
                     /\ builder.tracker.components[i].tid = tid
                     /\ builder'.returned =
                          Some(builder.tracker.components[i])
                     /\ builder'.tracker.components =
                          [builder.tracker.components
                             EXCEPT ![i] = Comp(tid, val)]
                     /\ Len(builder'.tracker.components) =
                          Len(builder.tracker.components)
              ELSE /\ builder'.returned = None
                   /\ builder'.tracker.components =
                        Append(builder.tracker.components, Comp(tid, val)))
      /\ \A i, j \in 1..Len(builder'.tracker.components) :
           (builder'.tracker.components[i].tid =
              builder'.tracker.components[j].tid) => (i = j)
      /\ BuilderBuild =>
           (/\ TidsOf(builder'.built[1].assoc) =
                 FirstOccurrences(TidsOf(builder.inserts))
            /\ \A i \in 1..Len(builder'.built[1].comps) :
                 builder'.built[1].comps[i].val =
                   LastValue(builder.inserts, builder'.built[1].comps[i].tid))
  ]_vars

\* a builder was given a second component of a type it held, between two
\* others, and was built with two components
C28_Witness ==
  /\ builder.built # None
  /\ Len(builder.inserts) = 3
  /\ builder.inserts[1].tid = builder.inserts[3].tid
  /\ builder.inserts[1].val # builder.inserts[3].val
  /\ builder.inserts[2].tid # builder.inserts[1].tid
  /\ builder.returned = Some(builder.inserts[1])
  /\ Len(builder.built[1].assoc) = 2

\* ------------------------------------------------- properties of queries
\* the query finds what it looks for on a collection of components
RECURSIVE Finds(_, _)
Finds(q, assoc) ==
  CASE q.shape \in {"ref", "mut"} -> PosOf(assoc, q.tid) # 0
    [] q.shape = "opt" -> TRUE
    [] q.shape = "tuple" -> \A i \in 1..Len(q.sub) : Finds(q.sub[i], assoc)

\* the components that the parts of a query ask for, with the mode of each
RECURSIVE Parts(_)
RECURSIVE PartsOfAll(_)
Parts(q) ==
  IF q.shape \in {"ref", "mut"} THEN <<q>> ELSE PartsOfAll(q.sub)
PartsOfAll(qs) ==
  IF qs = <<>> THEN <<>> ELSE Parts(Head(qs)) \o PartsOfAll(Tail(qs))

\* two parts of the query ask for the same component, one of them mutably
SelfConflict(q) ==
  \E i, j \in 1..Len(Parts(q)) :
    /\ i # j
    /\ Parts(q)[i].tid = Parts(q)[j].tid
    /\ Parts(q)[i].shape = "mut"

\* no lock of the entity's components is poisoned
Sound(e) == \A i \in 1..Len(assocs[e]) : ~assocs[e][i].p

\* the query returns, with Some exactly if it finds what it looks for, and
\* with Some(None) for an Option whose query finds nothing
Answers(e, q) ==
  /\ panic' = NoPanic
  /\ last'.op = "query_shape"
  /\ (last'.response # None) <=> Finds(q, assocs[e])
  /\ (q.shape = "opt" /\ ~Finds(q.sub[1], assocs[e])) =>
       (last'.response = Some(None))

\* C29 as stated: on an alive entity with no outstanding guards a query
\* returns; &C and &mut C give None exactly if the entity has no C,
\* Option<Q> gives Some, and Some(None) if Q finds nothing, and a tuple gives
\* Some exactly if every member finds its component.
C29_QueryFindsOrNone ==
  [][
      \A e \in issued, q \in Shapes :
        (QueryShape(e, q) /\ Liveness(e) = "Alive" /\ guards = <<>>) =>
          Answers(e, q)
  ]_vars

\* C29, amended: the same for a query no two parts of which ask for the same
\* component with one of them mutably, on an entity none of whose component
\* locks is poisoned.
C29_QueryFindsOrNoneUnlessConflict ==
  [][
      \A e \in issued, q \in Shapes :
        (/\ QueryShape(e, q)
         /\ Liveness(e) = "Alive"
         /\ guards = <<>>
         /\ Sound(e)
         /\ ~SelfConflict(q)) =>
          Answers(e, q)
  ]_vars

\* a tuple query has found nothing after its first member had found its
\* component, and holds no guard
C29_Witness ==
  /\ last.op = "query_shape"
  /\ last.shape = Tup(<<Ref("A"), Ref("C")>>)
  /\ last.response = None
  /\ guards = <<>>
  /\ \A i \in 1..Len(assocs[last.entity]) :
       assocs[last.entity][i].r = 0 /\ ~assocs[last.entity][i].w

\* C30: a &mut C query while any guard on the component is outstanding, and
\* a &C query while a write guard on it is outstanding, panic with a message
\* that names the entity: they return nothing and take no guard; a &C query
\* while only read guards on the component are outstanding returns Some and
\* takes one more read guard.
C30_ConflictingQueryFails ==
  [][
      \A e \in issued, c \in CompTypes, mode \in Modes :
        (Query(e, c, mode) /\ e \in DOMAIN assocs) =>
          (\A i \in 1..Len(assocs[e]) :
             (assocs[e][i].tid = c) =>
               (/\ Conflict(CompHolders(e, i, "Read"),
                            CompHolders(e, i, "Write"), mode) =>
                     (/\ panic' = Panicked(IF mode = "Read" THEN "query_read"
                                           ELSE "query_write", e, c)
                      /\ guards' = guards
                      /\ assocs' = assocs
                      /\ last' = last)
                /\ (/\ mode = "Read"
                    /\ CompHolders(e, i, "Read") > 0
                    /\ CompHolders(e, i, "Write") = 0) =>
                     (/\ panic' = NoPanic
                      /\ last' = [op |-> "query", result |-> "Some"]
                      /\ guards' = Append(guards,
                                          CompGuard(Holder, e, i, "Read"))
                      /\ assocs'[e][i].r = assocs[e][i].r + 1
                      /\ ~assocs'[e][i].w)))
  ]_vars

\* a handler that reads its component has queried it with &C and got it,
\* and its &mut query of the same component has panicked
C30_Witness ==
  /\ panic.kind = "query_write"
  /\ stack # <<>>
  /\ Top.phase = "handler"
  /\ panic.entity = Top.target
  /\ assocs[Top.target][Top.idx].tid = panic.comp
  /\ HandlerKind(Top) = "Read"
  /\ \E k \in 1..Len(guards) :
       guards[k] = CompGuard(Top.id, Top.target, Top.idx, "Read")
  /\ assocs[Top.target][Top.idx].r = 2

\* --------------------------------------------- properties of dispatch_to_all
\* C31: dispatch_to_all(m) dispatches to the entities that are Alive when it
\* is called and to no other; each dispatch starts from a clone of the
\* original m, whatever the handlers of the entities served before have made
\* of theirs; when the call returns each of these entities has had exactly
\* one dispatch, and the entities reserved or lazily spawned during the
\* call none.
C31_OneCloneEach ==
  [][
      /\ \A e \in issued :
           SweepDispatch(e) =>
             (/\ e \in sweep.alive
              /\ sweep.sent[e] = 0
              /\ Liveness(e) = "Alive"
              /\ panic' = NoPanic
              /\ stack' = <<Frame(1, e, Msg(sweep.mtype, <<>>), "top", 0)>>)
      /\ SweepReturn =>
           (\A e \in issued :
              IF e \in sweep.alive
              THEN sweep.sent[e] = 1
              ELSE e \in DOMAIN sweep.sent => sweep.sent[e] = 0)
  ]_vars

\* a dispatch_to_all over two rabbits has returned: each has had one
\* dispatch, and the rabbits that their handlers lazily spawned have had none
C31_Witness ==
  /\ last.op = "dispatch_to_all"
  /\ Cardinality(sweep.alive) = 2
  /\ \A e \in sweep.alive : sweep.sent[e] = 1
  /\ \E e \in issued \ sweep.alive :
       /\ Liveness(e) = "PartiallySpawned"
       /\ e \notin DOMAIN sweep.sent
       /\ \E k \in 1..Len(lazy) : lazy[k] = FinishEntity(<<"Rabbit">>, e)

\* ------------------------------------------- properties of direct access
NotAlive(e) == Liveness(e) \in {"Dead", "PartiallySpawned"}

\* every handle other than e keeps its liveness and its components, and no
\* handler frame is entered
OthersUntouched(e) ==
  /\ \A o \in issued \ {e} :
       /\ liveness(allocator', assocs', o) = Liveness(o)
       /\ o \in DOMAIN assocs => assocs'[o] = assocs[o]
  /\ stack' = stack
  /\ guards' = guards

\* C32: dispatch (top-level, nested, or the delivery of a queued message),
\* query, len_of and despawn on a handle that is Dead or PartiallySpawned
\* fail and touch no other entity; the liveness probe on such a handle
\* answers with its liveness and does not fail.
C32_NotAliveAccessFails ==
  [][
      \A e \in issued :
        NotAlive(e) =>
          /\ Dispatch(e, "M1") =>
               (panic' = Panicked("unfinished", e, "") /\ OthersUntouched(e))
          /\ NestedDispatch(e, "M1") =>
               (panic' = Panicked("unfinished", e, "") /\ OthersUntouched(e))
          /\ (Drain /\ Head(access.queued).target = e) =>
               (panic' = Panicked("unfinished", e, "") /\ OthersUntouched(e))
          /\ Query(e, "A", "Read") =>
               (panic' = Panicked("unfinished", e, "") /\ OthersUntouched(e))
          /\ LenOf(e) =>
               (panic' = Panicked("len_of_dead", e, "") /\ OthersUntouched(e))
          /\ Despawn(e) =>
               (/\ panic'.kind \in {"not_in_allocator", "not_finished"}
                /\ panic'.entity = e
                /\ OthersUntouched(e))
          /\ LivenessOf(e) =>
               (/\ panic' = NoPanic
                /\ last' = [op |-> "liveness", entity |-> e,
                            result |-> Liveness(e)])
  ]_vars

\* a queued follow-up has just failed on a handle that is not alive while
\* another entity is alive
C32_Witness ==
  /\ panic.kind = "unfinished"
  /\ stack # <<>>
  /\ Top.phase = "drain"
  /\ NotAlive(panic.entity)
  /\ \E o \in issued : o # panic.entity /\ Liveness(o) = "Alive"

\* ------------------------------------------ properties of queued messages
\* C33: the messages queued during a top-level dispatch are delivered once
\* each in the order they were queued: at every moment what was sent is what
\* was delivered followed by what is still queued, each delivery enters a
\* dispatch of exactly the message at the head of the queue to its target,
\* and the top-level dispatch returns only when everything sent has been
\* delivered.
C33_QueuedDeliveredOnceInOrder ==
  [][
      /\ access'.sent = access'.delivered \o access'.queued
      /\ (\E e \in issued, m \in MsgTypes : QueueDispatch(e, m)) =>
           /\ access'.delivered = access.delivered
           /\ Len(access'.sent) = Len(access.sent) + 1
      /\ Drain =>
           /\ access'.sent = access.sent
           /\ access'.delivered = Append(access.delivered, Head(access.queued))
           /\ \/ panic' = Panicked("unfinished", Head(access.queued).target, "")
              \/ /\ Len(stack') = Len(stack) + 1
                 /\ stack'[Len(stack')].target = Head(access.queued).target
                 /\ stack'[Len(stack')].msg = Head(access.queued).msg
                 /\ stack'[Len(stack')].via = "queued"
      /\ (Return /\ Top.via = "top") =>
           /\ access.queued = <<>>
           /\ access.delivered = access.sent
  ]_vars

\* a top-level dispatch is about to return after two queued deliveries, the
\* second one queued by a handler of the first
C33_Witness ==
  /\ panic = NoPanic
  /\ Len(stack) = 1
  /\ Top.via = "top"
  /\ Top.phase = "drain"
  /\ access.queued = <<>>
  /\ Len(access.delivered) = 2
  /\ access.delivered[1].by = 1
  /\ access.delivered[2].by = 2

\* ------------------------------------------- properties of the yak shaver
\* the handles that the allocator of a new World gives out
FirstHandles == {Entity(i, 0) : i \in 0..(MaxAllocs - 1)}

\* dispatch(e, MsgShaveYak::new(n)) has just been called on a deferring
\* shaver that has shaved nothing yet
ShaveBegun(e, n) ==
  /\ panic = NoPanic
  /\ stack = <<Frame(1, e, Msg("MsgShaveYak", n), "top", 0)>>
  /\ assocs[e][1].val = [yaks_shaved |-> 0, defer |-> TRUE]

\* that dispatch has returned and the handler has run n times
ShaveDone(e, n) ==
  /\ panic = NoPanic
  /\ stack = <<>>
  /\ last.op = "dispatch"
  /\ last.target = e
  /\ assocs[e][1].val.yaks_shaved = n

\* C34 as stated, for every count: dispatch(e, N) on a deferring shaver
\* returns, and the handler has then run exactly N times.
C34_ShavesEveryCount ==
  \A e \in FirstHandles, n \in 0..MaxShaves :
    ShaveBegun(e, n) ~> ShaveDone(e, n)

\* C34, for a positive count: dispatch(e, N) with N >= 1 on a deferring
\* shaver returns, and the handler has then run exactly N times.
C34_ShavesPositiveCount ==
  \A e \in FirstHandles, n \in 1..MaxShaves :
    ShaveBegun(e, n) ~> ShaveDone(e, n)

\* a dispatch of the largest count has returned with the shaver at that count
C34_Witness ==
  \E e \in issued :
    /\ ShaveDone(e, MaxShaves)
    /\ assocs[e][1].val.defer
    /\ last.msg.val = MaxShaves - 1

\* ---------------------------------------------- properties of reentrancy
\* the walk of the running dispatch is at a component with a handler for
\* its message
AtHandler ==
  /\ stack # <<>>
  /\ NextStop(assocs[Top.target], Top.idx, Top.msg.type)
       <= Len(assocs[Top.target])

Reached == NextStop(assocs[Top.target], Top.idx, Top.msg.type)

\* the reached component is held in a way that excludes the handler
ReachedHeld ==
  Conflict(CompHolders(Top.target, Reached, "Read"),
           CompHolders(Top.target, Reached, "Write"),
           MsgTable(assocs[Top.target][Reached].tid, Top.msg.type))

\* a step of the walk locks at most the reached component
LocksOnlyReached ==
  \A e \in DOMAIN assocs :
    \A j \in 1..Len(assocs[e]) :
      (~AtHandler \/ e # Top.target \/ j # Reached)
        => assocs'[e][j] = assocs[e][j]

\* C35 as stated: the walk fails with the reentrancy error exactly when the
\* component it reaches is held exclusively, or held shared while the
\* handler is a write handler; it locks no other component.
C35_LoopIffHeld ==
  [][
      Walk =>
        /\ LocksOnlyReached
        /\ AtHandler => ((panic'.kind = "loop") <=> ReachedHeld)
  ]_vars

\* C35 with poisoned locks: the walk fails with the reentrancy error exactly
\* when the component it reaches is held exclusively, or held shared while
\* the handler is a write handler, or its lock was poisoned by a failure
\* under an exclusive guard; it locks no other component.
C35_LoopIffHeldOrPoisoned ==
  [][
      Walk =>
        /\ LocksOnlyReached
        /\ AtHandler =>
             ((panic'.kind = "loop") <=>
                (ReachedHeld \/ assocs[Top.target][Reached].p))
  ]_vars

\* a handler runs in a dispatch nested in a handler of another component of
\* the same entity, and one runs nested in a handler of another entity
C35_Witness ==
  /\ panic = NoPanic
  /\ Len(stack) = 2
  /\ stack[1].phase = "handler"
  /\ stack[2].phase = "handler"
  /\ stack[2].via = "nested"
  /\ stack[1].target = stack[2].target
  /\ stack[1].idx # stack[2].idx
  /\ HandlerKind(stack[1]) = "Write"
  /\ HandlerKind(stack[2]) = "Write"

\* --------------------------------------- properties of queued despawns
\* the handles that the queued despawns name
DespawnTargets ==
  {lazy[k].entity : k \in {j \in 1..Len(lazy) : lazy[j].kind = "DespawnEntity"}}

\* C36: finalize removes only entities whose exact handle a queued despawn
\* names: an alive entity that no queued despawn names keeps its components,
\* whatever index the despawns' handles have, and a batch of despawns alone
\* removes exactly the named handles that are alive and changes the
\* liveness of no other handle, without failing.
C36_DespawnByExactHandle ==
  [][
      Finalize =>
        /\ \A e \in issued \ DespawnTargets :
             (Liveness(e) = "Alive" /\ panic' = NoPanic) =>
               (/\ liveness(allocator', assocs', e) = "Alive"
                /\ assocs'[e] = assocs[e])
        /\ (\A k \in 1..Len(lazy) : lazy[k].kind = "DespawnEntity") =>
             (/\ panic' = NoPanic
              /\ DOMAIN assocs' = DOMAIN assocs \ DespawnTargets
              /\ \A e \in issued \ DespawnTargets :
                   liveness(allocator', assocs', e) = Liveness(e)
              /\ \A e \in DespawnTargets :
                   Liveness(e) = "Dead" =>
                     liveness(allocator', assocs', e) = "Dead")
  ]_vars

\* a finalize has applied a despawn of a dead handle whose index a new
\* entity had taken: the new entity is alive
C36_Witness ==
  /\ last.op = "finalize"
  /\ \E d, n \in issued :
       /\ \E k \in 1..Len(last.applied) : last.applied[k] = DespawnEntity(d)
       /\ last.before[d] = "Dead"
       /\ n.index = d.index
       /\ n.generation # d.generation
       /\ last.before[n] = "Alive"
       /\ Liveness(n) = "Alive"

\* ------------------------------------------ properties of released locks
\* every component lock is held exactly by the guards that the caller of
\* the world holds, and no guard belongs to a handler
OnlyCallerGuards ==
  /\ \A k \in 1..Len(guards') : guards'[k].holder = 0
  /\ \A e \in DOMAIN assocs' :
       \A i \in 1..Len(assocs'[e]) :
         /\ assocs'[e][i].r =
              Cardinality({k \in 1..Len(guards') :
                             /\ guards'[k].kind = "comp"
                             /\ guards'[k].entity = e
                             /\ guards'[k].pos = i
                             /\ guards'[k].mode = "Read"})
         /\ assocs'[e][i].w =
              (\E k \in 1..Len(guards') :
                 /\ guards'[k].kind = "comp"
                 /\ guards'[k].entity = e
                 /\ guards'[k].pos = i
                 /\ guards'[k].mode = "Write")
         /\ ~assocs'[e][i].p

\* C37: when a top-level dispatch or a dispatch_to_all returns, the only
\* component locks held are those of guards that the caller holds, none
\* taken by the walk or by a handler; and a tuple query that returns None
\* leaves the locks and the guards as they were.
C37_NoGuardOutlivesDispatch ==
  [][
      /\ (Return /\ Top.via = "top") =>
           (OnlyCallerGuards /\ guards' = guards)
      /\ SweepReturn => OnlyCallerGuards
      /\ \A e \in issued, q \in ReleaseShapes :
           (/\ QueryShape(e, q)
            /\ panic' = NoPanic
            /\ last'.response = None)
             => (assocs' = assocs /\ guards' = guards)
  ]_vars

\* a dispatch_to_all of a message with read and write handlers has returned
\* after two entities, while the caller holds a guard taken before it
C37_Witness ==
  /\ last.op = "dispatch_to_all"
  /\ sweep.mtype = "M1"
  /\ Cardinality(sweep.alive) = 2
  /\ \A e \in sweep.alive : sweep.sent[e] = 1
  /\ guards # <<>>

\* ---------------------------------------------- properties of the storage
\* C38: every entity with a component collection is in the allocator, and
\* neither liveness nor finish_spawn ever meets a handle that breaks this.
C38_AliveImpliesAllocated ==
  /\ \A e \in DOMAIN assocs : contains(allocator, e)
  /\ panic.kind \notin {"assocs_not_allocator", "already_alive"}

\* C39: a despawn that fails leaves the allocator, the collections, the
\* liveness of every handle and len() as they were.
C39_FailedDespawnChangesNothing ==
  [][
      \A e \in issued :
        (Despawn(e) /\ panic' # NoPanic) =>
          /\ allocator' = allocator
          /\ assocs' = assocs
          /\ \A o \in issued : liveness(allocator', assocs', o) = Liveness(o)
          /\ Cardinality(DOMAIN assocs') = len
  ]_vars

\* ------------------------------- properties of the counter-based world
\* C40: every handle that lazy_spawn handed out is the handle that finalize
\* gives the entity: the assertion of LazyUpdate::apply does not fail, and
\* in a build without it no spawn is given another handle than expected.
C40_LazyHandleIsAssigned ==
  /\ panic.kind # "assert_eq"
  /\ last.op = "world_finalize" =>
       \A k \in 1..Len(last.assigned) :
         last.assigned[k].new = last.assigned[k].expect

====
